---- MODULE Spec2Model ----
(***************************************************************************)
(* Rizlax: the escrow/wallet ledger (EscrowService, WalletService) and the *)
(* contract/milestone lifecycle (ContractService, MilestoneService), as    *)
(* state machines over the rows of the shared database.                    *)
(*                                                                         *)
(* Tables are functions from ids to rows; a row with exists = FALSE is a   *)
(* row that is not in the table.  Nullable timestamps are 0 when null; the *)
(* clock (new Date()) starts at 1.                                         *)
(***************************************************************************)
EXTENDS Integers, Sequences, FiniteSets, TLC

VARIABLES
    contracts,            \* Contract table
    milestones,           \* Milestone table
    bypassAdmin,          \* MilestoneService.bypassAdmin
    wallets,              \* Wallet table, keyed by userId (unique)
    escrows,              \* EscrowAccount table, keyed by contractId (unique)
    escrowTransactions,   \* EscrowTransaction rows, in insertion order
    walletTransactions,   \* WalletTransaction rows, in insertion order
    clock,                \* the value new Date() returns
    txs,                  \* per request, the call in flight: its arguments, what it has read and the statement it runs next
    otps,                 \* Otp rows of one (email, type), in insertion order
    wrongGuesses,         \* per Otp row, the finished verifyOtp calls that had read it and sent a wrong code, counted up to maxAttempts
    last                  \* what the most recently finished call returned or threw

vars == <<contracts, milestones, bypassAdmin, wallets, escrows,
          escrowTransactions, walletTransactions, clock, txs, otps,
          wrongGuesses, last>>

lifecycleVars == <<contracts, milestones, bypassAdmin>>
ledgerVars    == <<wallets, escrows, escrowTransactions, walletTransactions>>
otpVars       == <<otps, wrongGuesses>>

----------------------------------------------------------------------------
(* Bounds of the model *)

\* largest value of the clock
MaxClock == 2
\* largest number of Otp rows of the (email, type)
MaxOtps == 2
\* largest amount a caller passes (amounts are drawn from 0 .. MaxAmount)
MaxAmount == 2
\* largest availableBalance a client wallet starts with
MaxBalance == 2
\* largest initialAmount (= heldAmount) an escrow account starts with
MaxInitial == 1
\* rows each transaction log may hold
MaxLog == 2
\* rows each transaction log may hold when requests overlap
MaxLogConc == 2

----------------------------------------------------------------------------
(* Identifiers and the rows that exist when the services start *)

UserIds == {"c1", "f1", "f2"}
\* "K0" is the id of no contract
ContractIds == {"K1", "K2"}
AnyContractId == ContractIds \cup {"K0"}
\* "M0" is the id of no milestone
MilestoneIds == {"M1", "M2"}
AnyMilestoneId == MilestoneIds \cup {"M0"}

\* User.role and User.status (the auth service owns them; constant here)
users ==
    [u \in UserIds |->
        CASE u = "c1" -> [role |-> "CLIENT", status |-> "ACTIVE"]
          [] u = "f1" -> [role |-> "FREELANCER", status |-> "ACTIVE"]
          [] u = "f2" -> [role |-> "FREELANCER", status |-> "SUSPENDED"]]

ContractStatus == {"PENDING", "ACTIVE", "REVIEW_PENDING", "COMPLETED",
                   "DISPUTED", "TERMINATED"}

MilestoneStatus == {"PENDING", "IN_PROGRESS", "SUBMITTED", "APPROVED", "PAID",
                    "DISPUTED", "CANCELED", "COMPLETED", "REJECTED"}

NoContract ==
    [exists |-> FALSE, clientId |-> "", freelancerId |-> "", jobId |-> "",
     amount |-> 0, status |-> "PENDING", startDate |-> 0, endDate |-> 0,
     submittedAt |-> 0, createdAt |-> 0, updatedAt |-> 0]

\* a CreateContractDTO: status "" and endDate 0 stand for the optional fields
\* left out, startDate is required
CreateContractDTO(clientId, freelancerId, jobId, status, startDate, endDate) ==
    [clientId |-> clientId, freelancerId |-> freelancerId, jobId |-> jobId,
     amount |-> 50, status |-> status, startDate |-> startDate,
     endDate |-> endDate]

\* the row createContract writes at time now: prisma.contract.create({ data })
\* stores the DTO as given, the column defaults fill in a status left out
\* (PENDING) and createdAt, and the client fills in updatedAt, the column it
\* sets to the time of every create and update
NewContract(data, now) ==
    [exists |-> TRUE, clientId |-> data.clientId,
     freelancerId |-> data.freelancerId, jobId |-> data.jobId,
     amount |-> data.amount,
     status |-> IF data.status = "" THEN "PENDING" ELSE data.status,
     startDate |-> data.startDate, endDate |-> data.endDate, submittedAt |-> 0,
     createdAt |-> now, updatedAt |-> now]

\* K1 and K2 as createContract wrote them at time 1, without status or endDate
InitContracts ==
    [k \in AnyContractId |->
        CASE k = "K1" -> NewContract(CreateContractDTO("c1", "f1", "j1", "", 1, 0), 1)
          [] k = "K2" -> NewContract(CreateContractDTO("c1", "f2", "j2", "", 1, 0), 1)
          [] OTHER -> NoContract]

NoMilestone ==
    [exists |-> FALSE, contractId |-> "", sequence |-> 0, amount |-> 0,
     status |-> "PENDING", deletionRequestedAt |-> 0]

NoWallet == [exists |-> FALSE, availableBalance |-> 0, pendingBalance |-> 0]

\* the row initializeUserWallet creates
NewWallet == [exists |-> TRUE, availableBalance |-> 0, pendingBalance |-> 0]

NoEscrow == [exists |-> FALSE, heldAmount |-> 0, initialAmount |-> 0]

\* no Otp row: what findFirst returns when no row matches
NoOtp ==
    [exists |-> FALSE, id |-> 0, otp |-> "", status |-> "PENDING", attempts |-> 0,
     expiresAt |-> 0, createdAt |-> 0, verifiedAt |-> 0, lastAttempt |-> 0]

\* the requests that may be in flight at once
Requests == {"r1", "r2"}
\* a request with no call in flight.  A call in flight keeps its arguments
\* (otp is the code sent to verifyOtp), what it has read so far (count,
\* contract, otpRecord), the new Date() it has taken (now), whether it holds
\* the row of its first update (locked) and the statement it runs next (pc);
\* seen is the rows that had wrongGuesses maxAttempts when verifyOtp was called
NoTx ==
    [op |-> "", userId |-> "", contractId |-> "", amount |-> 0, relatedId |-> "",
     count |-> 0, now |-> 0, locked |-> FALSE, pc |-> "", contract |-> NoContract,
     otp |-> "", otpRecord |-> NoOtp, seen |-> {}]

Ok(op, id) == [op |-> op, id |-> id, res |-> "OK", from |-> "", to |-> ""]
Err(op, id, code) == [op |-> op, id |-> id, res |-> code, from |-> "", to |-> ""]
NoCall == [op |-> "", id |-> "", res |-> "", from |-> "", to |-> ""]

\* the call of request r is over: r is free again
Finish(r) == txs' = [txs EXCEPT ![r] = NoTx]

----------------------------------------------------------------------------
(* ContractService *)

VALID_TRANSITIONS(from) ==
    CASE from = "PENDING"        -> {"ACTIVE", "TERMINATED"}
      [] from = "ACTIVE"         -> {"REVIEW_PENDING", "TERMINATED"}
      [] from = "REVIEW_PENDING" -> {"COMPLETED", "DISPUTED", "TERMINATED"}
      [] from = "COMPLETED"      -> {}
      [] from = "DISPUTED"       -> {"TERMINATED"}
      [] from = "TERMINATED"     -> {}

\* a validateStatusTransition that lets a finished contract be terminated
ContractTransitionAllowedLax(from, to) ==
    to \in VALID_TRANSITIONS(from) \/ to = "TERMINATED"

\* ContractService.validateStatusTransition: TRUE when it does not throw
ContractTransitionAllowed(from, to) ==
    to \in VALID_TRANSITIONS(from)

\* the outcome of validateContractExists followed by validateStatusTransition
\* on the row findUnique returned (NoContract for null)
ValidateContractRow(contract, to) ==
    IF ~contract.exists THEN "CONTRACT_NOT_FOUND"
    ELSE IF ~ContractTransitionAllowed(contract.status, to)
         THEN "INVALID_CONTRACT_STATUS_TRANSITION"
         ELSE "OK"

\* a call that reads the row as it is now
ContractTransitionOutcome(contractId, to) ==
    ValidateContractRow(contracts[contractId], to)

\* one ContractService transition: validate, then prisma.contract.update(data),
\* which also sets updatedAt to the time of the update
ContractCall(op, contractId, to, data) ==
    LET r == ContractTransitionOutcome(contractId, to) IN
    /\ contractId \in AnyContractId
    /\ IF r = "OK"
       THEN /\ contracts' = [contracts EXCEPT ![contractId] =
                                [data EXCEPT !.updatedAt = clock]]
            /\ last' = Ok(op, contractId)
       ELSE /\ UNCHANGED contracts
            /\ last' = Err(op, contractId, r)
    /\ UNCHANGED <<milestones, bypassAdmin, otpVars, ledgerVars, clock, txs>>

\* the CreateContractDTOs of the calls: for the job of K1 or a new job, with
\* or without a status and an endDate
ContractDTOs ==
    {CreateContractDTO("c1", "f2", j, s, d, e) :
        j \in {"j1", "j2"}, s \in {""} \cup ContractStatus,
        d \in 1 .. MaxClock, e \in {0, MaxClock}}

\* createContract: prisma.contract.create({ data }); newId is the id the
\* database gives the new row, and the unique index Contract_jobId_key makes
\* the create throw (P2002) when a contract of that job exists
createContract(newId, data) ==
    /\ ~contracts[newId].exists
    /\ IF \E k \in AnyContractId :
             contracts[k].exists /\ contracts[k].jobId = data.jobId
       THEN /\ UNCHANGED contracts
            /\ last' = Err("createContract", data.jobId, "P2002")
       ELSE /\ contracts' = [contracts EXCEPT ![newId] = NewContract(data, clock)]
            /\ last' = Ok("createContract", newId)
    /\ UNCHANGED <<milestones, bypassAdmin, otpVars, ledgerVars, clock, txs>>

startContract(contractId) ==
    ContractCall("startContract", contractId, "ACTIVE",
        [contracts[contractId] EXCEPT !.status = "ACTIVE", !.startDate = clock])

submitWork(contractId) ==
    ContractCall("submitWork", contractId, "REVIEW_PENDING",
        [contracts[contractId] EXCEPT !.status = "REVIEW_PENDING",
                                      !.submittedAt = clock])

completeContract(contractId) ==
    ContractCall("completeContract", contractId, "COMPLETED",
        [contracts[contractId] EXCEPT !.status = "COMPLETED", !.endDate = clock])

\* a disputeContract that also stamps endDate
disputeContractStampsEnd(contractId) ==
    ContractCall("disputeContract", contractId, "DISPUTED",
        [contracts[contractId] EXCEPT !.status = "DISPUTED", !.endDate = clock])

disputeContract(contractId) ==
    ContractCall("disputeContract", contractId, "DISPUTED",
        [contracts[contractId] EXCEPT !.status = "DISPUTED"])

terminateContract(contractId) ==
    ContractCall("terminateContract", contractId, "TERMINATED",
        [contracts[contractId] EXCEPT !.status = "TERMINATED", !.endDate = clock])

\* time passes between two calls
Tick ==
    /\ clock < MaxClock
    /\ clock' = clock + 1
    /\ UNCHANGED <<lifecycleVars, otpVars, ledgerVars, txs, last>>

----------------------------------------------------------------------------
(* ContractValidator *)

\* a validateContractStatus that never throws
validateContractStatusAny(contract) ==
    TRUE

\* validateContractStatus: TRUE when it does not throw
validateContractStatus(contract) ==
    contract.status = "ACTIVE" \/ contract.status = "PENDING"

\* validateUserAccess: TRUE when it does not throw
validateUserAccess(contract, userId) ==
    contract.clientId = userId \/ contract.freelancerId = userId

\* validateClientOnly: TRUE when it does not throw
validateClientOnly(contract, userId) ==
    contract.clientId = userId

\* validateFreelancerOnly: TRUE when it does not throw
validateFreelancerOnly(contract, userId) ==
    contract.freelancerId = userId

----------------------------------------------------------------------------
(* MilestoneService.  A Milestone row keeps the columns an operation reads   *)
(* or a caller can tell apart afterwards: contractId, sequence, amount,    *)
(* status and deletionRequestedAt.  title, description, dueDate and the    *)
(* approvedAt / submittedAt / disputedAt stamps are written and never read. *)

VALID_STATUS_TRANSITIONS(from) ==
    CASE from = "PENDING"     -> {"IN_PROGRESS", "CANCELED"}
      [] from = "IN_PROGRESS" -> {"SUBMITTED", "CANCELED"}
      [] from = "SUBMITTED"   -> {"APPROVED", "REJECTED", "DISPUTED"}
      [] from = "APPROVED"    -> {"PAID", "DISPUTED"}
      [] from = "PAID"        -> {"COMPLETED"}
      [] from = "DISPUTED"    -> {"APPROVED", "REJECTED"}
      [] from = "CANCELED"    -> {}
      [] from = "COMPLETED"   -> {}
      [] from = "REJECTED"    -> {"IN_PROGRESS", "CANCELED"}

\* MilestoneService.validateStatusTransition: TRUE when it does not throw
MilestoneTransitionAllowed(from, to) ==
    bypassAdmin \/ to \in VALID_STATUS_TRANSITIONS(from)

\* getAndValidateContract: the code of the DomainError it throws, or "OK"
getAndValidateContract(contractId, userId) ==
    LET contract == contracts[contractId] IN
    IF ~contract.exists THEN "CONTRACT_NOT_FOUND"
    ELSE IF ~validateContractStatus(contract) THEN "CONTRACT_INACTIVE"
    ELSE IF ~validateUserAccess(contract, userId) THEN "USER_NOT_AUTHORIZED"
    ELSE "OK"

\* the static methods of ContractValidator
ContractValidatorMethods ==
    {"validateContractExists", "validateContractStatus", "validateUserAccess",
     "validateClientOnly", "validateFreelancerOnly"}

\* ContractValidator[`validate${role}Only`](contract, userId): the template
\* string keeps the case of role, "CLIENT" or "FREELANCER", so the key is
\* validateCLIENTOnly or validateFREELANCEROnly; ContractValidator has no such
\* property and calling undefined throws a TypeError
validateRoleOnly(role, contract, userId) ==
    LET key == "validate" \o role \o "Only" IN
    IF key \notin ContractValidatorMethods THEN "TYPE_ERROR"
    ELSE IF key = "validateClientOnly"
    THEN IF validateClientOnly(contract, userId) THEN "OK" ELSE "CLIENT_ONLY_ACTION"
    ELSE IF validateFreelancerOnly(contract, userId) THEN "OK"
         ELSE "FREELANCER_ONLY_ACTION"

\* withMilestoneContext up to the callback: getMilestone, getAndValidateContract,
\* then the role check
withMilestoneContext(milestoneId, userId, role) ==
    IF ~milestones[milestoneId].exists THEN "MILESTONE_NOT_FOUND"
    ELSE LET contractId == milestones[milestoneId].contractId
             r == getAndValidateContract(contractId, userId) IN
         IF r # "OK" THEN r
         ELSE validateRoleOnly(role, contracts[contractId], userId)

MilestoneFrame == UNCHANGED <<contracts, bypassAdmin, otpVars, ledgerVars, clock, txs>>

\* a status-changing operation: context, validateStatusTransition, update(data)
MilestoneStatusCall(op, milestoneId, userId, role, to, data) ==
    LET r == withMilestoneContext(milestoneId, userId, role)
        from == milestones[milestoneId].status IN
    /\ IF r # "OK"
       THEN /\ UNCHANGED milestones
            /\ last' = Err(op, milestoneId, r)
       ELSE IF ~MilestoneTransitionAllowed(from, to)
       THEN /\ UNCHANGED milestones
            /\ last' = [op |-> op, id |-> milestoneId,
                        res |-> "INVALID_MILESTONE_STATUS_TRANSITION",
                        from |-> from, to |-> to]
       ELSE /\ milestones' = [milestones EXCEPT ![milestoneId] = data]
            /\ last' = Ok(op, milestoneId)
    /\ MilestoneFrame

markMilestoneAsApprovedByFreelancer(milestoneId, userId) ==
    MilestoneStatusCall("markMilestoneAsApprovedByFreelancer", milestoneId, userId,
        "FREELANCER", "APPROVED",
        [milestones[milestoneId] EXCEPT !.status = "APPROVED"])

rejectMilestone(milestoneId, userId) ==
    MilestoneStatusCall("rejectMilestone", milestoneId, userId,
        "FREELANCER", "REJECTED",
        [milestones[milestoneId] EXCEPT !.status = "REJECTED"])

submitMilestone(milestoneId, userId) ==
    MilestoneStatusCall("submitMilestone", milestoneId, userId,
        "FREELANCER", "SUBMITTED",
        [milestones[milestoneId] EXCEPT !.status = "SUBMITTED"])

disputeMilestone(milestoneId, userId) ==
    MilestoneStatusCall("disputeMilestone", milestoneId, userId,
        "CLIENT", "DISPUTED",
        [milestones[milestoneId] EXCEPT !.status = "DISPUTED"])

approveWorkByClient(milestoneId, userId) ==
    MilestoneStatusCall("approveWorkByClient", milestoneId, userId,
        "CLIENT", "COMPLETED",
        [milestones[milestoneId] EXCEPT !.status = "COMPLETED"])

\* tx.milestone.count({ where: { contractId } })
MilestoneCount(contractId) ==
    Cardinality({m \in MilestoneIds :
        milestones[m].exists /\ milestones[m].contractId = contractId})

\* MilestoneValidator.validateMilestoneData: the code it throws, or "OK"
validateMilestoneData(amount, dueDate) ==
    IF amount <= 0 THEN "INVALID_AMOUNT"
    ELSE IF dueDate < clock THEN "INVALID_DUE_DATE"
    ELSE "OK"

\* createMilestone up to its transaction: getAndValidateContract,
\* validateClientOnly (called by name), validateMilestoneData
createMilestoneCheck(contractId, amount, dueDate, userId) ==
    LET r == getAndValidateContract(contractId, userId) IN
    IF r # "OK" THEN r
    ELSE IF ~validateClientOnly(contracts[contractId], userId)
         THEN "CLIENT_ONLY_ACTION"
    ELSE validateMilestoneData(amount, dueDate)

\* a create that stores the milestone as SUBMITTED
NewMilestoneSubmitted(contractId, amount, count) ==
    [NoMilestone EXCEPT !.exists = TRUE, !.contractId = contractId,
                        !.amount = amount, !.sequence = count + 1,
                        !.status = "SUBMITTED"]

\* the row tx.milestone.create writes after tx.milestone.count gave `count`:
\* no status in data, so the column default PENDING
NewMilestone(contractId, amount, count) ==
    [NoMilestone EXCEPT !.exists = TRUE, !.contractId = contractId,
                        !.amount = amount, !.sequence = count + 1]

\* createMilestone; newId is the id the database gives the new row
createMilestone(newId, contractId, amount, dueDate, userId) ==
    LET v == createMilestoneCheck(contractId, amount, dueDate, userId) IN
    /\ ~milestones[newId].exists
    /\ IF v # "OK"
       THEN /\ UNCHANGED milestones
            /\ last' = Err("createMilestone", contractId, v)
       ELSE /\ milestones' = [milestones EXCEPT ![newId] =
                   NewMilestone(contractId, amount, MilestoneCount(contractId))]
            /\ last' = Ok("createMilestone", newId)
    /\ MilestoneFrame

\* MilestoneValidator.validatePartialMilestoneData for data = { amount }
validatePartialMilestoneData(amount) ==
    IF amount <= 0 THEN "INVALID_AMOUNT" ELSE "OK"

\* updateMilestone with data = { amount }: the fields left undefined are not written
updateMilestone(milestoneId, userId, amount) ==
    LET r == withMilestoneContext(milestoneId, userId, "CLIENT")
        v == IF r # "OK" THEN r
             ELSE IF validatePartialMilestoneData(amount) # "OK"
                  THEN validatePartialMilestoneData(amount)
             ELSE IF milestones[milestoneId].status # "PENDING"
                  THEN "INVALID_MILESTONE_UPDATE"
             ELSE "OK" IN
    /\ IF v # "OK"
       THEN /\ UNCHANGED milestones
            /\ last' = Err("updateMilestone", milestoneId, v)
       ELSE /\ milestones' = [milestones EXCEPT ![milestoneId].amount = amount]
            /\ last' = Ok("updateMilestone", milestoneId)
    /\ MilestoneFrame

requestDeletion(milestoneId, userId) ==
    LET r == withMilestoneContext(milestoneId, userId, "CLIENT") IN
    /\ IF r # "OK"
       THEN /\ UNCHANGED milestones
            /\ last' = Err("requestDeletion", milestoneId, r)
       ELSE /\ milestones' = [milestones EXCEPT
                                 ![milestoneId].deletionRequestedAt = clock]
            /\ last' = Ok("requestDeletion", milestoneId)
    /\ MilestoneFrame

acceptRequestDeletion(milestoneId, userId) ==
    LET r == withMilestoneContext(milestoneId, userId, "FREELANCER")
        v == IF r # "OK" THEN r
             ELSE IF milestones[milestoneId].deletionRequestedAt = 0
                  THEN "NO_DELETION_REQUEST"
             ELSE "OK" IN
    /\ IF v # "OK"
       THEN /\ UNCHANGED milestones
            /\ last' = Err("acceptRequestDeletion", milestoneId, v)
       ELSE /\ milestones' = [milestones EXCEPT ![milestoneId] = NoMilestone]
            /\ last' = Ok("acceptRequestDeletion", milestoneId)
    /\ MilestoneFrame

----------------------------------------------------------------------------
(* WalletService.  Every prisma.$transaction callback reads the row it     *)
(* checks (findUnique) and later writes it with an atomic increment or     *)
(* decrement; its writes become visible together when it commits.  Check   *)
(* is that read and test, Writes is the committed effect.                  *)

LedgerFrame == UNCHANGED <<lifecycleVars, otpVars, clock, txs>>

initializeUserWallet(userId) ==
    /\ wallets' = [wallets EXCEPT ![userId] =
                      IF wallets[userId].exists THEN @ ELSE NewWallet]
    /\ last' = Ok("initializeUserWallet", userId)
    /\ UNCHANGED <<escrows, escrowTransactions, walletTransactions>>
    /\ LedgerFrame

\* updatePendingBalance: walletUpdate.count of the updateMany
updatePendingBalanceCount(userId) ==
    IF /\ wallets[userId].exists
       /\ users[userId].role = "FREELANCER"
       /\ users[userId].status = "ACTIVE"
    THEN 1 ELSE 0

\* updatePendingBalance(tx, userId, amount) for amount > 0: the wallets and the
\* wallet log it leaves
updatePendingBalanceWallets(userId, amount) ==
    [wallets EXCEPT ![userId].pendingBalance = @ + amount]

\* an updatePendingBalance that writes no WalletTransaction row
updatePendingBalanceLogNone(userId, amount) ==
    walletTransactions

updatePendingBalanceLog(userId, amount) ==
    IF wallets[userId].exists
    THEN Append(walletTransactions,
                [walletId |-> userId, amount |-> amount, type |-> "RELEASE",
                 relatedId |-> ""])
    ELSE walletTransactions

\* movePendingToAvailable without its balance test
movePendingToAvailableCheckNone(userId, amount) ==
    IF amount <= 0 THEN "RETURN" ELSE "OK"

\* movePendingToAvailable up to the update: "RETURN" is the silent return
movePendingToAvailableCheck(userId, amount) ==
    IF amount <= 0 THEN "RETURN"
    ELSE IF ~wallets[userId].exists \/ wallets[userId].pendingBalance < amount
         THEN "INSUFFICIENT_PENDING_BALANCE"
         ELSE "OK"

movePendingToAvailableWrites(userId, amount) ==
    /\ wallets' = [wallets EXCEPT ![userId].pendingBalance = @ - amount,
                                  ![userId].availableBalance = @ + amount]
    /\ walletTransactions' = Append(walletTransactions,
           [walletId |-> userId, amount |-> amount, type |-> "ADJUSTMENT",
            relatedId |-> ""])
    /\ UNCHANGED <<escrows, escrowTransactions>>

\* processPayoutDeduction without its balance test
processPayoutDeductionCheckNone(userId, amount) ==
    IF amount <= 0 THEN "RETURN" ELSE "OK"

\* processPayoutDeduction up to the update
processPayoutDeductionCheck(userId, amount) ==
    IF amount <= 0 THEN "RETURN"
    ELSE IF ~wallets[userId].exists \/ wallets[userId].availableBalance < amount
         THEN "INSUFFICIENT_AVAILABLE_BALANCE"
         ELSE "OK"

processPayoutDeductionWrites(userId, amount, withdrawalId) ==
    /\ wallets' = [wallets EXCEPT ![userId].availableBalance = @ - amount]
    /\ walletTransactions' = Append(walletTransactions,
           [walletId |-> userId, amount |-> amount, type |-> "WITHDRAWAL",
            relatedId |-> withdrawalId])
    /\ UNCHANGED <<escrows, escrowTransactions>>

\* what a call that did not go through leaves: a silent return resolves
Rejected(op, id, r) ==
    /\ last' = IF r = "RETURN" THEN Ok(op, id) ELSE Err(op, id, r)
    /\ UNCHANGED ledgerVars

movePendingToAvailable(userId, amount) ==
    LET r == movePendingToAvailableCheck(userId, amount) IN
    /\ IF r = "OK"
       THEN /\ movePendingToAvailableWrites(userId, amount)
            /\ last' = Ok("movePendingToAvailable", userId)
       ELSE Rejected("movePendingToAvailable", userId, r)
    /\ LedgerFrame

processPayoutDeduction(userId, amount, withdrawalId) ==
    LET r == processPayoutDeductionCheck(userId, amount) IN
    /\ IF r = "OK"
       THEN /\ processPayoutDeductionWrites(userId, amount, withdrawalId)
            /\ last' = Ok("processPayoutDeduction", userId)
       ELSE Rejected("processPayoutDeduction", userId, r)
    /\ LedgerFrame

----------------------------------------------------------------------------
(* EscrowService *)

\* _getContractWithEscrow: the error it throws, or "OK"
getContractWithEscrow(contractId) ==
    IF ~contracts[contractId].exists THEN "CONTRACT_NOT_FOUND"
    ELSE IF ~escrows[contractId].exists THEN "ESCROW_NOT_INITIALIZED"
    ELSE "OK"

\* depositFunds without the test of the caller
depositFundsCheckAnyone(userId, contractId, amount) ==
    IF amount <= 0 THEN "AMOUNT_NOT_POSITIVE"
    ELSE IF getContractWithEscrow(contractId) # "OK"
         THEN getContractWithEscrow(contractId)
    ELSE IF ~wallets[userId].exists \/ wallets[userId].availableBalance < amount
         THEN "INSUFFICIENT_AVAILABLE_BALANCE"
    ELSE "OK"

\* depositFunds without the balance test of its transaction
depositFundsCheckNone(userId, contractId, amount) ==
    IF amount <= 0 THEN "AMOUNT_NOT_POSITIVE"
    ELSE IF getContractWithEscrow(contractId) # "OK"
         THEN getContractWithEscrow(contractId)
    ELSE IF contracts[contractId].clientId # userId THEN "UNAUTHORIZED"
    ELSE "OK"

\* depositFunds up to the first update of its transaction
depositFundsCheck(userId, contractId, amount) ==
    IF amount <= 0 THEN "AMOUNT_NOT_POSITIVE"
    ELSE IF getContractWithEscrow(contractId) # "OK"
         THEN getContractWithEscrow(contractId)
    ELSE IF contracts[contractId].clientId # userId THEN "UNAUTHORIZED"
    ELSE IF ~wallets[userId].exists \/ wallets[userId].availableBalance < amount
         THEN "INSUFFICIENT_AVAILABLE_BALANCE"
    ELSE "OK"

\* a depositFunds that logs the wallet row as DEPOSIT
depositFundsWritesAsDeposit(userId, contractId, amount) ==
    /\ wallets' = [wallets EXCEPT ![userId].availableBalance = @ - amount]
    /\ escrows' = [escrows EXCEPT ![contractId].heldAmount = @ + amount]
    /\ escrowTransactions' = Append(escrowTransactions,
           [escrowAccountId |-> contractId, amount |-> amount, type |-> "DEPOSIT",
            sourceWalletId |-> userId, destinationWalletId |-> ""])
    /\ walletTransactions' = Append(walletTransactions,
           [walletId |-> userId, amount |-> amount, type |-> "DEPOSIT",
            relatedId |-> contractId])

depositFundsWrites(userId, contractId, amount) ==
    /\ wallets' = [wallets EXCEPT ![userId].availableBalance = @ - amount]
    /\ escrows' = [escrows EXCEPT ![contractId].heldAmount = @ + amount]
    /\ escrowTransactions' = Append(escrowTransactions,
           [escrowAccountId |-> contractId, amount |-> amount, type |-> "DEPOSIT",
            sourceWalletId |-> userId, destinationWalletId |-> ""])
    /\ walletTransactions' = Append(walletTransactions,
           [walletId |-> userId, amount |-> amount, type |-> "HOLD",
            relatedId |-> contractId])

depositFunds(userId, contractId, amount) ==
    LET r == depositFundsCheck(userId, contractId, amount) IN
    /\ IF r = "OK"
       THEN /\ depositFundsWrites(userId, contractId, amount)
            /\ last' = Ok("depositFunds", contractId)
       ELSE Rejected("depositFunds", contractId, r)
    /\ LedgerFrame

\* releaseFunds without the heldAmount test of its transaction
releaseFundsCheckNone(userId, contractId, amount) ==
    IF amount <= 0 THEN "AMOUNT_NOT_POSITIVE"
    ELSE IF getContractWithEscrow(contractId) # "OK"
         THEN getContractWithEscrow(contractId)
    ELSE IF contracts[contractId].clientId # userId THEN "UNAUTHORIZED"
    ELSE "OK"

\* releaseFunds up to the first update of its transaction
releaseFundsCheck(userId, contractId, amount) ==
    IF amount <= 0 THEN "AMOUNT_NOT_POSITIVE"
    ELSE IF getContractWithEscrow(contractId) # "OK"
         THEN getContractWithEscrow(contractId)
    ELSE IF contracts[contractId].clientId # userId THEN "UNAUTHORIZED"
    ELSE IF escrows[contractId].heldAmount < amount
         THEN "INSUFFICIENT_HELD_AMOUNT"
    ELSE "OK"

\* the rest of the releaseFunds transaction: the error that rolls it back, or "OK"
releaseFundsCredit(contractId) ==
    IF updatePendingBalanceCount(contracts[contractId].freelancerId) = 0
    THEN "FREELANCER_WALLET_NOT_FOUND_OR_INACTIVE"
    ELSE "OK"

\* a releaseFunds that credits the freelancer's availableBalance
releaseFundsWritesToAvailable(contractId, amount) ==
    LET freelancerId == contracts[contractId].freelancerId IN
    /\ escrows' = [escrows EXCEPT ![contractId].heldAmount = @ - amount]
    /\ wallets' = [wallets EXCEPT ![freelancerId].availableBalance = @ + amount]
    /\ walletTransactions' = updatePendingBalanceLog(freelancerId, amount)
    /\ escrowTransactions' = Append(escrowTransactions,
           [escrowAccountId |-> contractId, amount |-> amount,
            type |-> "RELEASE", sourceWalletId |-> "",
            destinationWalletId |-> freelancerId])

\* a releaseFunds that writes no EscrowTransaction row
releaseFundsWritesNoRow(contractId, amount) ==
    LET freelancerId == contracts[contractId].freelancerId IN
    /\ escrows' = [escrows EXCEPT ![contractId].heldAmount = @ - amount]
    /\ wallets' = updatePendingBalanceWallets(freelancerId, amount)
    /\ walletTransactions' = updatePendingBalanceLog(freelancerId, amount)
    /\ UNCHANGED escrowTransactions

releaseFundsWrites(contractId, amount) ==
    LET freelancerId == contracts[contractId].freelancerId IN
    /\ escrows' = [escrows EXCEPT ![contractId].heldAmount = @ - amount]
    /\ wallets' = updatePendingBalanceWallets(freelancerId, amount)
    /\ walletTransactions' = updatePendingBalanceLog(freelancerId, amount)
    /\ escrowTransactions' =
          IF wallets[freelancerId].exists
          THEN Append(escrowTransactions,
                  [escrowAccountId |-> contractId, amount |-> amount,
                   type |-> "RELEASE", sourceWalletId |-> "",
                   destinationWalletId |-> freelancerId])
          ELSE escrowTransactions

\* a releaseFunds whose heldAmount decrement survives the failed credit
releaseFundsNoRollback(userId, contractId, amount) ==
    LET r == releaseFundsCheck(userId, contractId, amount) IN
    /\ IF r # "OK" THEN Rejected("releaseFunds", contractId, r)
       ELSE IF releaseFundsCredit(contractId) = "OK"
       THEN /\ releaseFundsWrites(contractId, amount)
            /\ last' = Ok("releaseFunds", contractId)
       ELSE /\ escrows' = [escrows EXCEPT ![contractId].heldAmount = @ - amount]
            /\ UNCHANGED <<wallets, escrowTransactions, walletTransactions>>
            /\ last' = Err("releaseFunds", contractId,
                           releaseFundsCredit(contractId))
    /\ LedgerFrame

releaseFunds(userId, contractId, amount) ==
    LET r == releaseFundsCheck(userId, contractId, amount)
        v == IF r # "OK" THEN r ELSE releaseFundsCredit(contractId) IN
    /\ IF v = "OK"
       THEN /\ releaseFundsWrites(contractId, amount)
            /\ last' = Ok("releaseFunds", contractId)
       ELSE Rejected("releaseFunds", contractId, v)
    /\ LedgerFrame

\* refundFunds without the heldAmount test of its transaction
refundFundsCheckNone(contractId, amount) ==
    IF amount <= 0 THEN "AMOUNT_NOT_POSITIVE"
    ELSE getContractWithEscrow(contractId)

\* refundFunds up to the first update of its transaction
refundFundsCheck(contractId, amount) ==
    IF amount <= 0 THEN "AMOUNT_NOT_POSITIVE"
    ELSE IF getContractWithEscrow(contractId) # "OK"
         THEN getContractWithEscrow(contractId)
    ELSE IF escrows[contractId].heldAmount < amount
         THEN "INSUFFICIENT_HELD_AMOUNT"
    ELSE "OK"

\* the rest of the refundFunds transaction: tx.wallet.update throws when the
\* client has no wallet
refundFundsCredit(contractId) ==
    IF ~wallets[contracts[contractId].clientId].exists
    THEN "RECORD_NOT_FOUND"
    ELSE "OK"

\* a refundFunds that does not credit the client
refundFundsWritesNoCredit(contractId, amount) ==
    LET clientId == contracts[contractId].clientId IN
    /\ escrows' = [escrows EXCEPT ![contractId].heldAmount = @ - amount]
    /\ UNCHANGED wallets
    /\ escrowTransactions' = Append(escrowTransactions,
           [escrowAccountId |-> contractId, amount |-> amount, type |-> "REFUND",
            sourceWalletId |-> "", destinationWalletId |-> clientId])
    /\ walletTransactions' = Append(walletTransactions,
           [walletId |-> clientId, amount |-> amount, type |-> "ADJUSTMENT",
            relatedId |-> contractId])

refundFundsWrites(contractId, amount) ==
    LET clientId == contracts[contractId].clientId IN
    /\ escrows' = [escrows EXCEPT ![contractId].heldAmount = @ - amount]
    /\ wallets' = [wallets EXCEPT ![clientId].availableBalance = @ + amount]
    /\ escrowTransactions' = Append(escrowTransactions,
           [escrowAccountId |-> contractId, amount |-> amount, type |-> "REFUND",
            sourceWalletId |-> "", destinationWalletId |-> clientId])
    /\ walletTransactions' = Append(walletTransactions,
           [walletId |-> clientId, amount |-> amount, type |-> "ADJUSTMENT",
            relatedId |-> contractId])

refundFunds(contractId, amount) ==
    LET r == refundFundsCheck(contractId, amount)
        v == IF r # "OK" THEN r ELSE refundFundsCredit(contractId) IN
    /\ IF v = "OK"
       THEN /\ refundFundsWrites(contractId, amount)
            /\ last' = Ok("refundFunds", contractId)
       ELSE Rejected("refundFunds", contractId, v)
    /\ LedgerFrame

----------------------------------------------------------------------------
(* The three EscrowService operations as functions of the ledger: the     *)
(* outcome and the ledger a call leaves when it runs alone on ledger l, a  *)
(* record of the four tables.  They let two calls be composed in either    *)
(* order from one state.                                                   *)

Ledger ==
    [wallets |-> wallets, escrows |-> escrows,
     escrowTransactions |-> escrowTransactions,
     walletTransactions |-> walletTransactions]

\* _getContractWithEscrow on ledger l
getContractWithEscrowIn(l, contractId) ==
    IF ~contracts[contractId].exists THEN "CONTRACT_NOT_FOUND"
    ELSE IF ~l.escrows[contractId].exists THEN "ESCROW_NOT_INITIALIZED"
    ELSE "OK"

\* a depositFunds that takes its arguments as an idempotency key: a deposit
\* whose row is already in the log is not applied again
depositFundsInOnce(l, userId, contractId, amount) ==
    LET g == getContractWithEscrowIn(l, contractId)
        row == [escrowAccountId |-> contractId, amount |-> amount,
                type |-> "DEPOSIT", sourceWalletId |-> userId,
                destinationWalletId |-> ""]
        r == IF amount <= 0 THEN "AMOUNT_NOT_POSITIVE"
             ELSE IF g # "OK" THEN g
             ELSE IF contracts[contractId].clientId # userId THEN "UNAUTHORIZED"
             ELSE IF \E i \in 1 .. Len(l.escrowTransactions) :
                        l.escrowTransactions[i] = row
                  THEN "DUPLICATE_REQUEST"
             ELSE IF \/ ~l.wallets[userId].exists
                     \/ l.wallets[userId].availableBalance < amount
                  THEN "INSUFFICIENT_AVAILABLE_BALANCE"
             ELSE "OK" IN
    IF r # "OK" THEN [res |-> r, ledger |-> l]
    ELSE [res |-> "OK",
          ledger |->
            [wallets |-> [l.wallets EXCEPT ![userId].availableBalance = @ - amount],
             escrows |-> [l.escrows EXCEPT ![contractId].heldAmount = @ + amount],
             escrowTransactions |-> Append(l.escrowTransactions, row),
             walletTransactions |-> Append(l.walletTransactions,
                [walletId |-> userId, amount |-> amount, type |-> "HOLD",
                 relatedId |-> contractId])]]

depositFundsIn(l, userId, contractId, amount) ==
    LET g == getContractWithEscrowIn(l, contractId)
        r == IF amount <= 0 THEN "AMOUNT_NOT_POSITIVE"
             ELSE IF g # "OK" THEN g
             ELSE IF contracts[contractId].clientId # userId THEN "UNAUTHORIZED"
             ELSE IF \/ ~l.wallets[userId].exists
                     \/ l.wallets[userId].availableBalance < amount
                  THEN "INSUFFICIENT_AVAILABLE_BALANCE"
             ELSE "OK" IN
    IF r # "OK" THEN [res |-> r, ledger |-> l]
    ELSE [res |-> "OK",
          ledger |->
            [wallets |-> [l.wallets EXCEPT ![userId].availableBalance = @ - amount],
             escrows |-> [l.escrows EXCEPT ![contractId].heldAmount = @ + amount],
             escrowTransactions |-> Append(l.escrowTransactions,
                [escrowAccountId |-> contractId, amount |-> amount,
                 type |-> "DEPOSIT", sourceWalletId |-> userId,
                 destinationWalletId |-> ""]),
             walletTransactions |-> Append(l.walletTransactions,
                [walletId |-> userId, amount |-> amount, type |-> "HOLD",
                 relatedId |-> contractId])]]

releaseFundsIn(l, userId, contractId, amount) ==
    LET g == getContractWithEscrowIn(l, contractId)
        f == contracts[contractId].freelancerId
        r == IF amount <= 0 THEN "AMOUNT_NOT_POSITIVE"
             ELSE IF g # "OK" THEN g
             ELSE IF contracts[contractId].clientId # userId THEN "UNAUTHORIZED"
             ELSE IF l.escrows[contractId].heldAmount < amount
                  THEN "INSUFFICIENT_HELD_AMOUNT"
             ELSE IF ~(/\ l.wallets[f].exists
                       /\ users[f].role = "FREELANCER"
                       /\ users[f].status = "ACTIVE")
                  THEN "FREELANCER_WALLET_NOT_FOUND_OR_INACTIVE"
             ELSE "OK" IN
    IF r # "OK" THEN [res |-> r, ledger |-> l]
    ELSE [res |-> "OK",
          ledger |->
            [wallets |-> [l.wallets EXCEPT ![f].pendingBalance = @ + amount],
             escrows |-> [l.escrows EXCEPT ![contractId].heldAmount = @ - amount],
             escrowTransactions |-> Append(l.escrowTransactions,
                [escrowAccountId |-> contractId, amount |-> amount,
                 type |-> "RELEASE", sourceWalletId |-> "",
                 destinationWalletId |-> f]),
             walletTransactions |-> Append(l.walletTransactions,
                [walletId |-> f, amount |-> amount, type |-> "RELEASE",
                 relatedId |-> ""])]]

\* a refundFunds that looks the escrow account up by its client: it finds the
\* account of the client's first contract
refundFundsInByClient(l, contractId, amount) ==
    LET c == contracts[contractId].clientId
        found == IF contracts["K1"].clientId = c THEN "K1" ELSE contractId
        g == getContractWithEscrowIn(l, contractId)
        r == IF amount <= 0 THEN "AMOUNT_NOT_POSITIVE"
             ELSE IF g # "OK" THEN g
             ELSE IF l.escrows[found].heldAmount < amount
                  THEN "INSUFFICIENT_HELD_AMOUNT"
             ELSE IF ~l.wallets[c].exists THEN "RECORD_NOT_FOUND"
             ELSE "OK" IN
    IF r # "OK" THEN [res |-> r, ledger |-> l]
    ELSE [res |-> "OK",
          ledger |->
            [wallets |-> [l.wallets EXCEPT ![c].availableBalance = @ + amount],
             escrows |-> [l.escrows EXCEPT ![found].heldAmount = @ - amount],
             escrowTransactions |-> Append(l.escrowTransactions,
                [escrowAccountId |-> found, amount |-> amount,
                 type |-> "REFUND", sourceWalletId |-> "",
                 destinationWalletId |-> c]),
             walletTransactions |-> Append(l.walletTransactions,
                [walletId |-> c, amount |-> amount, type |-> "ADJUSTMENT",
                 relatedId |-> contractId])]]

refundFundsIn(l, contractId, amount) ==
    LET g == getContractWithEscrowIn(l, contractId)
        c == contracts[contractId].clientId
        r == IF amount <= 0 THEN "AMOUNT_NOT_POSITIVE"
             ELSE IF g # "OK" THEN g
             ELSE IF l.escrows[contractId].heldAmount < amount
                  THEN "INSUFFICIENT_HELD_AMOUNT"
             ELSE IF ~l.wallets[c].exists THEN "RECORD_NOT_FOUND"
             ELSE "OK" IN
    IF r # "OK" THEN [res |-> r, ledger |-> l]
    ELSE [res |-> "OK",
          ledger |->
            [wallets |-> [l.wallets EXCEPT ![c].availableBalance = @ + amount],
             escrows |-> [l.escrows EXCEPT ![contractId].heldAmount = @ - amount],
             escrowTransactions |-> Append(l.escrowTransactions,
                [escrowAccountId |-> contractId, amount |-> amount,
                 type |-> "REFUND", sourceWalletId |-> "",
                 destinationWalletId |-> c]),
             walletTransactions |-> Append(l.walletTransactions,
                [walletId |-> c, amount |-> amount, type |-> "ADJUSTMENT",
                 relatedId |-> contractId])]]

----------------------------------------------------------------------------
(* OtpService, for one (email, type) pair of type EMAIL_VERIFICATION.  No   *)
(* method runs in a transaction: each awaited prisma call is a step of its *)
(* own, and the steps of overlapping calls interleave.  One unit of the    *)
(* clock is the expiry period of the type; the two minutes of the rate     *)
(* limit are shorter than that, so a row is recent when its createdAt is   *)
(* not before the clock value of the call.                                 *)

\* OTP_CONFIGS[EMAIL_VERIFICATION].maxAttempts
maxAttempts == 3

\* the codes generateOtp returns
GeneratedOtps == {"111111"}

\* the codes a caller of verifyOtp sends: a generated one and another one
OtpCodes == GeneratedOtps \cup {"222222"}

OtpEmail == "e1"

\* the row prisma.otp.create writes: expiresAt comes from the `now` of the
\* call, createdAt is the column default, the time of the insert
NewOtp(id, code, now, createdAt) ==
    [exists |-> TRUE, id |-> id, otp |-> code, status |-> "PENDING",
     attempts |-> 0, expiresAt |-> now + 1, createdAt |-> createdAt,
     verifiedAt |-> 0, lastAttempt |-> 0]

OtpFrame == UNCHANGED <<lifecycleVars, ledgerVars, clock>>

\* createAndSendOtp calls that have not yet created their row
OtpCreating == {r \in Requests : txs[r].op = "createAndSendOtp"}

\* createAndSendOtp(email, otpType) is called: now = new Date()
BeginCreateOtp(r) ==
    /\ txs[r] = NoTx
    /\ Len(otps) + Cardinality(OtpCreating) < MaxOtps
    /\ txs' = [txs EXCEPT ![r] =
                  [NoTx EXCEPT !.op = "createAndSendOtp", !.now = clock,
                               !.pc = "findRecent"]]
    /\ UNCHANGED <<otpVars, last>>
    /\ OtpFrame

\* the rate limit: findFirst of a row of any status created in the two minutes
\* before `now`, and the throw when there is one
FindRecentOtp(r) ==
    /\ txs[r].pc = "findRecent"
    /\ IF \E i \in 1 .. Len(otps) : otps[i].createdAt >= txs[r].now
       THEN /\ last' = Err("createAndSendOtp", OtpEmail, "WAIT_BEFORE_ANOTHER_OTP")
            /\ Finish(r)
       ELSE /\ txs' = [txs EXCEPT ![r].pc = "invalidate"]
            /\ UNCHANGED last
    /\ UNCHANGED otpVars
    /\ OtpFrame

\* updateMany: every PENDING row becomes EXPIRED
InvalidateOtps(r) ==
    /\ txs[r].pc = "invalidate"
    /\ otps' = [i \in 1 .. Len(otps) |->
                   IF otps[i].status = "PENDING"
                   THEN [otps[i] EXCEPT !.status = "EXPIRED"]
                   ELSE otps[i]]
    /\ txs' = [txs EXCEPT ![r].pc = "create"]
    /\ UNCHANGED <<wrongGuesses, last>>
    /\ OtpFrame

\* generateOtp, prisma.otp.create and the mail: the call returns
CreateOtp(r, code) ==
    /\ txs[r].pc = "create"
    /\ otps' = Append(otps, NewOtp(Len(otps) + 1, code, txs[r].now, clock))
    /\ wrongGuesses' = Append(wrongGuesses, 0)
    /\ last' = Ok("createAndSendOtp", OtpEmail)
    /\ Finish(r)
    /\ OtpFrame

\* the rows on which maxAttempts calls with a wrong code have finished
LockedOut == {i \in 1 .. Len(otps) : wrongGuesses[i] >= maxAttempts}

\* verifyOtp(email, otp, otpType) is called: now = new Date()
BeginVerifyOtp(r, code) ==
    /\ txs[r] = NoTx
    /\ txs' = [txs EXCEPT ![r] =
                  [NoTx EXCEPT !.op = "verifyOtp", !.otp = code, !.now = clock,
                               !.pc = "findPending", !.seen = LockedOut]]
    /\ UNCHANGED <<otpVars, last>>
    /\ OtpFrame

\* the rows findFirst({ status: PENDING }, orderBy createdAt desc) may return
LatestPending ==
    {i \in 1 .. Len(otps) :
        /\ otps[i].status = "PENDING"
        /\ \A j \in 1 .. Len(otps) :
              otps[j].status = "PENDING" => otps[j].createdAt <= otps[i].createdAt}

\* findFirst of the latest PENDING row, and the throw when there is none
FindPendingOtp(r) ==
    /\ txs[r].pc = "findPending"
    /\ IF LatestPending = {}
       THEN /\ last' = Err("verifyOtp", OtpEmail, "INVALID_VERIFICATION_CODE")
            /\ Finish(r)
       ELSE /\ \E i \in LatestPending :
                  txs' = [txs EXCEPT ![r].otpRecord = otps[i],
                                     ![r].pc = "update"]
            /\ UNCHANGED last
    /\ UNCHANGED otpVars
    /\ OtpFrame

\* the update of the mismatch branch: where { id, attempts < maxAttempts - 1 }
\* is tested on the row as it is when the update runs; when no row matches,
\* update throws and the catch block swallows it
verifyOtpCountAttempt(record, now) ==
    IF record.attempts < maxAttempts - 1
    THEN [record EXCEPT !.attempts = @ + 1, !.lastAttempt = now]
    ELSE record

\* one more wrong guess on row id
CountWrongGuess(id) ==
    wrongGuesses' = [wrongGuesses EXCEPT ![id] =
                        IF @ < maxAttempts THEN @ + 1 ELSE @]

\* the rest of verifyOtp, decided on the row it read: the expiry and lockout
\* test, the comparison of the codes, and the one update of the branch taken
UpdateOtp(r) ==
    LET otpRecord == txs[r].otpRecord
        now == txs[r].now
        id == otpRecord.id IN
    /\ txs[r].pc = "update"
    /\ IF otpRecord.expiresAt < now \/ otpRecord.attempts >= maxAttempts
       THEN /\ otps' = [otps EXCEPT ![id].status = "EXPIRED"]
            /\ last' = Err("verifyOtp", OtpEmail, "INVALID_VERIFICATION_CODE")
       ELSE IF otpRecord.otp # txs[r].otp
       THEN /\ otps' = [otps EXCEPT ![id] = verifyOtpCountAttempt(@, now)]
            /\ last' = Err("verifyOtp", OtpEmail, "INVALID_VERIFICATION_CODE")
       ELSE /\ otps' = [otps EXCEPT ![id].status = "VERIFIED",
                                    ![id].verifiedAt = now]
            /\ last' = Ok("verifyOtp", OtpEmail)
    /\ IF otpRecord.otp # txs[r].otp THEN CountWrongGuess(id)
       ELSE UNCHANGED wrongGuesses
    /\ Finish(r)
    /\ OtpFrame

\* cleanupExpiredOtps() is called: now = new Date()
BeginCleanup(r) ==
    /\ txs[r] = NoTx
    /\ txs' = [txs EXCEPT ![r] =
                  [NoTx EXCEPT !.op = "cleanupExpiredOtps", !.now = clock,
                               !.pc = "cleanup"]]
    /\ UNCHANGED <<otpVars, last>>
    /\ OtpFrame

\* updateMany: every PENDING row that expired before `now` becomes EXPIRED
CleanupOtps(r) ==
    /\ txs[r].pc = "cleanup"
    /\ otps' = [i \in 1 .. Len(otps) |->
                   IF otps[i].status = "PENDING" /\ otps[i].expiresAt < txs[r].now
                   THEN [otps[i] EXCEPT !.status = "EXPIRED"]
                   ELSE otps[i]]
    /\ last' = Ok("cleanupExpiredOtps", "")
    /\ Finish(r)
    /\ UNCHANGED wrongGuesses
    /\ OtpFrame

----------------------------------------------------------------------------
(* The contract lifecycle: createContract and the five ContractService     *)
(* transitions, called one at a time.                                      *)

InitIdle ==
    /\ clock = 1
    /\ txs = [r \in Requests |-> NoTx]
    /\ otps = <<>>
    /\ wrongGuesses = <<>>
    /\ last = NoCall

\* K1 exists, K2 is the id of the contract a createContract call will make
InitContract ==
    /\ contracts = [InitContracts EXCEPT !["K2"] = NoContract]
    /\ milestones = [m \in AnyMilestoneId |-> NoMilestone]
    /\ bypassAdmin = FALSE
    /\ wallets = [u \in UserIds |-> NoWallet]
    /\ escrows = [k \in AnyContractId |-> NoEscrow]
    /\ escrowTransactions = <<>>
    /\ walletTransactions = <<>>
    /\ InitIdle

NextContract ==
    \/ \E k \in ContractIds, d \in ContractDTOs : createContract(k, d)
    \/ \E k \in AnyContractId : startContract(k)
    \/ \E k \in AnyContractId : submitWork(k)
    \/ \E k \in AnyContractId : completeContract(k)
    \/ \E k \in AnyContractId : disputeContract(k)
    \/ \E k \in AnyContractId : terminateContract(k)
    \/ Tick

SpecContract == InitContract /\ [][NextContract]_vars

----------------------------------------------------------------------------
(* The milestone lifecycle: the MilestoneService operations, called one at  *)
(* a time.  The database holds one milestone of contract K1 in any status  *)
(* of the enum, K1 is in any contract status, K2 is finished, and the      *)
(* service runs without the admin override, as the contract service wires  *)
(* it (new MilestoneService(contractService)).                             *)

InitMilestones(status, requested) ==
    [m \in AnyMilestoneId |->
        IF m = "M1"
        THEN [NoMilestone EXCEPT !.exists = TRUE, !.contractId = "K1",
                                 !.sequence = 1, !.amount = 1,
                                 !.status = status,
                                 !.deletionRequestedAt = requested]
        ELSE NoMilestone]

InitMilestone ==
    /\ \E s \in ContractStatus :
          contracts = [InitContracts EXCEPT !["K1"].status = s,
                                            !["K2"].status = "COMPLETED"]
    /\ \E s \in MilestoneStatus : milestones = InitMilestones(s, 0)
    /\ bypassAdmin = FALSE
    /\ wallets = [u \in UserIds |-> NoWallet]
    /\ escrows = [k \in AnyContractId |-> NoEscrow]
    /\ escrowTransactions = <<>>
    /\ walletTransactions = <<>>
    /\ InitIdle

MilestoneAmounts == 0 .. MaxAmount
DueDates == {0, MaxClock}

NextMilestone ==
    \/ \E m \in AnyMilestoneId, u \in UserIds :
          markMilestoneAsApprovedByFreelancer(m, u)
    \/ \E m \in AnyMilestoneId, u \in UserIds : rejectMilestone(m, u)
    \/ \E m \in AnyMilestoneId, u \in UserIds : submitMilestone(m, u)
    \/ \E m \in AnyMilestoneId, u \in UserIds : disputeMilestone(m, u)
    \/ \E m \in AnyMilestoneId, u \in UserIds : approveWorkByClient(m, u)
    \/ \E m \in MilestoneIds, k \in AnyContractId, a \in MilestoneAmounts,
          d \in DueDates, u \in UserIds : createMilestone(m, k, a, d, u)
    \/ \E m \in AnyMilestoneId, u \in UserIds, a \in MilestoneAmounts :
          updateMilestone(m, u, a)
    \/ \E m \in AnyMilestoneId, u \in UserIds : requestDeletion(m, u)
    \/ \E m \in AnyMilestoneId, u \in UserIds : acceptRequestDeletion(m, u)

SpecMilestone == InitMilestone /\ [][NextMilestone]_vars

\* the service on contracts that have no milestone yet: every milestone row is
\* one that createMilestone wrote
InitMilestoneFresh ==
    /\ \E s \in ContractStatus :
          contracts = [InitContracts EXCEPT !["K1"].status = s,
                                            !["K2"].status = "ACTIVE"]
    /\ milestones = [m \in AnyMilestoneId |-> NoMilestone]
    /\ bypassAdmin = FALSE
    /\ wallets = [u \in UserIds |-> NoWallet]
    /\ escrows = [k \in AnyContractId |-> NoEscrow]
    /\ escrowTransactions = <<>>
    /\ walletTransactions = <<>>
    /\ InitIdle

SpecMilestoneFresh == InitMilestoneFresh /\ [][NextMilestone]_vars

\* the same service constructed with isAdmin = true (or started with
\* BYPASS_ADMIN_VALIDATIONS=true): bypassAdmin is set once, in the constructor
InitMilestoneAdmin ==
    /\ \E s \in ContractStatus :
          contracts = [InitContracts EXCEPT !["K1"].status = s,
                                            !["K2"].status = "COMPLETED"]
    /\ \E s \in MilestoneStatus : milestones = InitMilestones(s, 0)
    /\ bypassAdmin = TRUE
    /\ wallets = [u \in UserIds |-> NoWallet]
    /\ escrows = [k \in AnyContractId |-> NoEscrow]
    /\ escrowTransactions = <<>>
    /\ walletTransactions = <<>>
    /\ InitIdle

\* the corrective calls of the privileged service: the five operations that go
\* through validateStatusTransition, on milestones that createMilestone made or
\* that were there before
NextMilestoneAdmin ==
    \/ \E m \in AnyMilestoneId, u \in UserIds :
          markMilestoneAsApprovedByFreelancer(m, u)
    \/ \E m \in AnyMilestoneId, u \in UserIds : rejectMilestone(m, u)
    \/ \E m \in AnyMilestoneId, u \in UserIds : submitMilestone(m, u)
    \/ \E m \in AnyMilestoneId, u \in UserIds : disputeMilestone(m, u)
    \/ \E m \in AnyMilestoneId, u \in UserIds : approveWorkByClient(m, u)
    \/ \E m \in MilestoneIds, k \in AnyContractId, a \in MilestoneAmounts,
          d \in DueDates, u \in UserIds : createMilestone(m, k, a, d, u)

SpecMilestoneAdmin == InitMilestoneAdmin /\ [][NextMilestoneAdmin]_vars

----------------------------------------------------------------------------
(* The ledger, one call at a time.  The client may have a funded wallet,   *)
(* the freelancers' wallets are created on first use (f2, suspended, has   *)
(* one), and each escrow account starts with heldAmount = initialAmount    *)
(* and no transaction rows.  K1 is ACTIVE and K2 is COMPLETED.             *)

Amounts == 0 .. MaxAmount
WithdrawalIds == {"w1", "w2"}

InitWallets(hasWallet, balance) ==
    [u \in UserIds |->
        CASE u = "c1" -> IF hasWallet
                         THEN [NewWallet EXCEPT !.availableBalance = balance]
                         ELSE NoWallet
          [] u = "f1" -> NoWallet
          [] u = "f2" -> NewWallet]

InitEscrows(initial1, hasEscrow2, initial2) ==
    [k \in AnyContractId |->
        CASE k = "K1" -> [exists |-> TRUE, heldAmount |-> initial1,
                          initialAmount |-> initial1]
          [] k = "K2" -> IF hasEscrow2
                         THEN [exists |-> TRUE, heldAmount |-> initial2,
                               initialAmount |-> initial2]
                         ELSE NoEscrow
          [] OTHER -> NoEscrow]

InitLedger ==
    /\ contracts = [InitContracts EXCEPT !["K1"].status = "ACTIVE",
                                         !["K2"].status = "COMPLETED"]
    /\ milestones = [m \in AnyMilestoneId |-> NoMilestone]
    /\ bypassAdmin = FALSE
    /\ \/ wallets = InitWallets(FALSE, 0)
       \/ \E b \in 0 .. MaxBalance : wallets = InitWallets(TRUE, b)
    /\ \/ \E i \in 0 .. MaxInitial : escrows = InitEscrows(i, FALSE, 0)
       \/ \E i \in 0 .. MaxInitial : escrows = InitEscrows(0, TRUE, i)
    /\ escrowTransactions = <<>>
    /\ walletTransactions = <<>>
    /\ InitIdle

\* the logs are kept within MaxLog rows
LogRoom ==
    /\ Len(escrowTransactions) < MaxLog
    /\ Len(walletTransactions) < MaxLog

NextLedger ==
    \/ \E u \in UserIds : initializeUserWallet(u)
    \/ LogRoom /\ \E u \in UserIds, k \in AnyContractId, a \in Amounts :
          depositFunds(u, k, a)
    \/ LogRoom /\ \E u \in UserIds, k \in AnyContractId, a \in Amounts :
          releaseFunds(u, k, a)
    \/ LogRoom /\ \E k \in AnyContractId, a \in Amounts : refundFunds(k, a)
    \/ LogRoom /\ \E u \in UserIds, a \in Amounts : movePendingToAvailable(u, a)
    \/ LogRoom /\ \E u \in UserIds, a \in Amounts, w \in WithdrawalIds :
          processPayoutDeduction(u, a, w)

SpecLedger == InitLedger /\ [][NextLedger]_vars

----------------------------------------------------------------------------
(* The ledger under concurrent requests.  prisma.$transaction is called    *)
(* with { maxWait, timeout } and no isolationLevel, so each transaction   *)
(* runs at the database default, READ COMMITTED: its findUnique reads the  *)
(* committed row and takes no lock, another transaction may commit before  *)
(* its update runs, and the update applies its increment or decrement to   *)
(* the row as committed then.  A call is therefore two steps: Begin (the   *)
(* validation and the read-check) and Commit (the writes, or the rollback  *)
(* when a later statement throws).                                         *)
(* An update locks its row until the transaction ends.  depositFunds       *)
(* updates the Wallet row of the client and then the EscrowAccount row,    *)
(* refundFunds the EscrowAccount row and then the Wallet row of the        *)
(* client, so each of them has a step of its own for the first update:     *)
(* between that step and Commit the transaction holds the first row, and   *)
(* any update of that row by another transaction waits.  A depositFunds    *)
(* and a refundFunds of one contract that both hold their first row wait   *)
(* for each other; the database ends the deadlock by aborting one of them. *)

Tx(op, userId, contractId, amount, relatedId) ==
    [NoTx EXCEPT !.op = op, !.userId = userId, !.contractId = contractId,
                 !.amount = amount, !.relatedId = relatedId]

\* request r made a call whose validation and read-check gave outcome c
Begin(r, c, op, id, tx) ==
    /\ txs[r] = NoTx
    /\ IF c = "OK"
       THEN /\ txs' = [txs EXCEPT ![r] = tx]
            /\ UNCHANGED last
       ELSE /\ last' = IF c = "RETURN" THEN Ok(op, id) ELSE Err(op, id, c)
            /\ UNCHANGED txs
    /\ UNCHANGED <<lifecycleVars, otpVars, ledgerVars, clock>>

\* no transaction but that of r holds the Wallet row of userId: only a
\* depositFunds holds a wallet before its last update
WalletFree(r, userId) ==
    \A q \in Requests \ {r} :
        ~(txs[q].op = "depositFunds" /\ txs[q].locked /\ txs[q].userId = userId)

\* no transaction but that of r holds the EscrowAccount row of contractId: only
\* a refundFunds holds an escrow account before its last update
EscrowFree(r, contractId) ==
    \A q \in Requests \ {r} :
        ~(txs[q].op = "refundFunds" /\ txs[q].locked
          /\ txs[q].contractId = contractId)

\* the first update of the transaction of request r, depositFunds or
\* refundFunds: it takes the row when no other transaction holds it
FirstUpdate(r, op, free) ==
    /\ txs[r].op = op
    /\ ~txs[r].locked
    /\ free
    /\ txs' = [txs EXCEPT ![r].locked = TRUE]
    /\ UNCHANGED <<lifecycleVars, otpVars, ledgerVars, clock, last>>

BeginDeposit(r, userId, contractId, amount) ==
    Begin(r, depositFundsCheck(userId, contractId, amount), "depositFunds",
          contractId, Tx("depositFunds", userId, contractId, amount, ""))

\* tx.wallet.update of depositFunds
LockDeposit(r) ==
    FirstUpdate(r, "depositFunds", WalletFree(r, txs[r].userId))

\* tx.escrowAccount.update of depositFunds and the rest of its transaction
CommitDeposit(r) ==
    /\ txs[r].op = "depositFunds"
    /\ txs[r].locked
    /\ EscrowFree(r, txs[r].contractId)
    /\ depositFundsWrites(txs[r].userId, txs[r].contractId, txs[r].amount)
    /\ last' = Ok("depositFunds", txs[r].contractId)
    /\ Finish(r)
    /\ UNCHANGED <<lifecycleVars, otpVars, clock>>

BeginRelease(r, userId, contractId, amount) ==
    Begin(r, releaseFundsCheck(userId, contractId, amount), "releaseFunds",
          contractId, Tx("releaseFunds", userId, contractId, amount, ""))

CommitRelease(r) ==
    /\ txs[r].op = "releaseFunds"
    /\ EscrowFree(r, txs[r].contractId)
    /\ WalletFree(r, contracts[txs[r].contractId].freelancerId)
    /\ IF releaseFundsCredit(txs[r].contractId) = "OK"
       THEN /\ releaseFundsWrites(txs[r].contractId, txs[r].amount)
            /\ last' = Ok("releaseFunds", txs[r].contractId)
       ELSE Rejected("releaseFunds", txs[r].contractId,
                     releaseFundsCredit(txs[r].contractId))
    /\ Finish(r)
    /\ UNCHANGED <<lifecycleVars, otpVars, clock>>

BeginRefund(r, contractId, amount) ==
    Begin(r, refundFundsCheck(contractId, amount), "refundFunds",
          contractId, Tx("refundFunds", "", contractId, amount, ""))

\* tx.escrowAccount.update of refundFunds
LockRefund(r) ==
    FirstUpdate(r, "refundFunds", EscrowFree(r, txs[r].contractId))

\* tx.wallet.update of refundFunds and the rest of its transaction
CommitRefund(r) ==
    /\ txs[r].op = "refundFunds"
    /\ txs[r].locked
    /\ WalletFree(r, contracts[txs[r].contractId].clientId)
    /\ IF refundFundsCredit(txs[r].contractId) = "OK"
       THEN /\ refundFundsWrites(txs[r].contractId, txs[r].amount)
            /\ last' = Ok("refundFunds", txs[r].contractId)
       ELSE Rejected("refundFunds", txs[r].contractId,
                     refundFundsCredit(txs[r].contractId))
    /\ Finish(r)
    /\ UNCHANGED <<lifecycleVars, otpVars, clock>>

BeginMove(r, userId, amount) ==
    Begin(r, movePendingToAvailableCheck(userId, amount),
          "movePendingToAvailable", userId,
          Tx("movePendingToAvailable", userId, "", amount, ""))

CommitMove(r) ==
    /\ txs[r].op = "movePendingToAvailable"
    /\ WalletFree(r, txs[r].userId)
    /\ movePendingToAvailableWrites(txs[r].userId, txs[r].amount)
    /\ last' = Ok("movePendingToAvailable", txs[r].userId)
    /\ Finish(r)
    /\ UNCHANGED <<lifecycleVars, otpVars, clock>>

BeginPayout(r, userId, amount, withdrawalId) ==
    Begin(r, processPayoutDeductionCheck(userId, amount),
          "processPayoutDeduction", userId,
          Tx("processPayoutDeduction", userId, "", amount, withdrawalId))

CommitPayout(r) ==
    /\ txs[r].op = "processPayoutDeduction"
    /\ WalletFree(r, txs[r].userId)
    /\ processPayoutDeductionWrites(txs[r].userId, txs[r].amount, txs[r].relatedId)
    /\ last' = Ok("processPayoutDeduction", txs[r].userId)
    /\ Finish(r)
    /\ UNCHANGED <<lifecycleVars, otpVars, clock>>

\* the depositFunds of request d holds the wallet of the client and waits for
\* the escrow account that the refundFunds of request f holds, which waits
\* for that wallet
Deadlocked(d, f) ==
    /\ txs[d].op = "depositFunds"
    /\ txs[d].locked
    /\ txs[f].op = "refundFunds"
    /\ txs[f].locked
    /\ txs[f].contractId = txs[d].contractId
    /\ contracts[txs[f].contractId].clientId = txs[d].userId

\* the database aborts the transaction of request r, one of two that wait for
\* each other: it is rolled back and its call throws (P2034)
AbortDeadlock(r) ==
    /\ \E q \in Requests \ {r} : Deadlocked(r, q) \/ Deadlocked(q, r)
    /\ last' = Err(txs[r].op, txs[r].contractId, "P2034")
    /\ Finish(r)
    /\ UNCHANGED <<lifecycleVars, otpVars, ledgerVars, clock>>

\* room in the logs for the rows of the transactions in flight and one more
LogRoomFor(r) ==
    LET inFlight == Cardinality({q \in Requests : txs[q] # NoTx}) IN
    /\ Len(escrowTransactions) + inFlight < MaxLogConc
    /\ Len(walletTransactions) + inFlight < MaxLogConc

\* every wallet exists from the start; f1 has been paid before and holds a
\* pending balance
InitLedgerConc ==
    /\ contracts = [InitContracts EXCEPT !["K1"].status = "ACTIVE",
                                         !["K2"].status = "COMPLETED"]
    /\ milestones = [m \in AnyMilestoneId |-> NoMilestone]
    /\ bypassAdmin = FALSE
    /\ \E b \in 0 .. MaxBalance :
          wallets = [InitWallets(TRUE, b) EXCEPT
                        !["f1"] = [NewWallet EXCEPT !.pendingBalance = b]]
    /\ \E i \in 0 .. MaxInitial : escrows = InitEscrows(i, TRUE, 0)
    /\ escrowTransactions = <<>>
    /\ walletTransactions = <<>>
    /\ InitIdle

\* overlapping calls are drawn from the contracts that exist and carry one
\* withdrawal id; calls on a missing contract are those of SpecLedger
ConcWithdrawalIds == {"w1"}

NextLedgerConc ==
    \/ \E r \in Requests :
          LogRoomFor(r) /\ \E u \in UserIds, k \in ContractIds, a \in Amounts :
             BeginDeposit(r, u, k, a)
    \/ \E r \in Requests :
          LogRoomFor(r) /\ \E u \in UserIds, k \in ContractIds, a \in Amounts :
             BeginRelease(r, u, k, a)
    \/ \E r \in Requests :
          LogRoomFor(r) /\ \E k \in ContractIds, a \in Amounts :
             BeginRefund(r, k, a)
    \/ \E r \in Requests :
          LogRoomFor(r) /\ \E u \in UserIds, a \in Amounts : BeginMove(r, u, a)
    \/ \E r \in Requests :
          LogRoomFor(r) /\ \E u \in UserIds, a \in Amounts, w \in ConcWithdrawalIds :
             BeginPayout(r, u, a, w)
    \/ \E r \in Requests : LockDeposit(r)
    \/ \E r \in Requests : LockRefund(r)
    \/ \E r \in Requests : CommitDeposit(r)
    \/ \E r \in Requests : CommitRelease(r)
    \/ \E r \in Requests : CommitRefund(r)
    \/ \E r \in Requests : CommitMove(r)
    \/ \E r \in Requests : CommitPayout(r)
    \/ \E r \in Requests : AbortDeadlock(r)

SpecLedgerConc == InitLedgerConc /\ [][NextLedgerConc]_vars

----------------------------------------------------------------------------
(* Overlapping ContractService calls.  A transition is two database        *)
(* statements outside any transaction: findUnique, whose result is         *)
(* validated in memory, and update({ where: { id }, data }), which writes   *)
(* the new status whatever the row holds by then.  Begin is the read,     *)
(* Validate the code that runs once the read has returned (the validation *)
(* and the building of `data` with its new Date()), Commit the update.     *)

ContractOps ==
    {"startContract", "submitWork", "completeContract", "disputeContract",
     "terminateContract"}

\* the status an operation moves the contract to
ContractTarget(op) ==
    CASE op = "startContract"     -> "ACTIVE"
      [] op = "submitWork"        -> "REVIEW_PENDING"
      [] op = "completeContract"  -> "COMPLETED"
      [] op = "disputeContract"   -> "DISPUTED"
      [] op = "terminateContract" -> "TERMINATED"

\* the row prisma.contract.update leaves: the columns of `data` and updatedAt
\* are written over the row as it is when the update runs; `now` is the
\* new Date() of `data`, taken when the call built the object
ContractUpdate(op, contractId, now) ==
    CASE op = "startContract" ->
            [contracts[contractId] EXCEPT !.status = "ACTIVE", !.startDate = now,
                                          !.updatedAt = now]
      [] op = "submitWork" ->
            [contracts[contractId] EXCEPT !.status = "REVIEW_PENDING",
                                          !.submittedAt = now, !.updatedAt = now]
      [] op = "completeContract" ->
            [contracts[contractId] EXCEPT !.status = "COMPLETED", !.endDate = now,
                                          !.updatedAt = now]
      [] op = "disputeContract" ->
            [contracts[contractId] EXCEPT !.status = "DISPUTED", !.updatedAt = now]
      [] op = "terminateContract" ->
            [contracts[contractId] EXCEPT !.status = "TERMINATED", !.endDate = now,
                                          !.updatedAt = now]

\* request r calls op: the awaited prisma.contract.findUnique returns the row
\* as it is now (NoContract for null)
BeginContract(r, op, contractId) ==
    /\ txs[r] = NoTx
    /\ txs' = [txs EXCEPT ![r] =
                  [Tx(op, "", contractId, 0, "") EXCEPT
                      !.pc = "validate", !.contract = contracts[contractId]]]
    /\ UNCHANGED <<lifecycleVars, otpVars, ledgerVars, clock, last>>

\* the call of request r goes on once its read has returned:
\* validateContractExists and validateStatusTransition on the row it read,
\* which may throw, then the `data` of the update with its new Date()
ValidateContract(r) ==
    LET op == txs[r].op
        c == ValidateContractRow(txs[r].contract, ContractTarget(op)) IN
    /\ txs[r].pc = "validate"
    /\ IF c = "OK"
       THEN /\ txs' = [txs EXCEPT ![r].pc = "update", ![r].now = clock]
            /\ UNCHANGED last
       ELSE /\ last' = Err(op, txs[r].contractId, c)
            /\ Finish(r)
    /\ UNCHANGED <<lifecycleVars, otpVars, ledgerVars, clock>>

\* the update of the call of request r
CommitContract(r, op) ==
    /\ txs[r].op = op
    /\ txs[r].pc = "update"
    /\ contracts' = [contracts EXCEPT ![txs[r].contractId] =
                        ContractUpdate(op, txs[r].contractId, txs[r].now)]
    /\ last' = Ok(op, txs[r].contractId)
    /\ Finish(r)
    /\ UNCHANGED <<milestones, bypassAdmin, otpVars, ledgerVars, clock>>

BeginStart(r, contractId) == BeginContract(r, "startContract", contractId)
CommitStart(r) == CommitContract(r, "startContract")
BeginSubmitWork(r, contractId) == BeginContract(r, "submitWork", contractId)
CommitSubmitWork(r) == CommitContract(r, "submitWork")
BeginComplete(r, contractId) == BeginContract(r, "completeContract", contractId)
CommitComplete(r) == CommitContract(r, "completeContract")
BeginDispute(r, contractId) == BeginContract(r, "disputeContract", contractId)
CommitDispute(r) == CommitContract(r, "disputeContract")
BeginTerminate(r, contractId) == BeginContract(r, "terminateContract", contractId)
CommitTerminate(r) == CommitContract(r, "terminateContract")

\* the overlapping transitions are calls on one contract; createContract is one
\* statement
ConcContractIds == {"K1"}

\* the CreateContractDTOs of the createContract calls made meanwhile: for the
\* job of K1 or a new job, without a status or an endDate
ConcContractDTOs ==
    {CreateContractDTO("c1", "f2", j, "", d, 0) :
        j \in {"j1", "j2"}, d \in 1 .. MaxClock}

\* every step is one awaited statement of one call, or the code between two of
\* them; time may pass between any two steps
NextContractConc ==
    \/ \E k \in ContractIds, d \in ConcContractDTOs : createContract(k, d)
    \/ \E r \in Requests, k \in ConcContractIds : BeginStart(r, k)
    \/ \E r \in Requests, k \in ConcContractIds : BeginSubmitWork(r, k)
    \/ \E r \in Requests, k \in ConcContractIds : BeginComplete(r, k)
    \/ \E r \in Requests, k \in ConcContractIds : BeginDispute(r, k)
    \/ \E r \in Requests, k \in ConcContractIds : BeginTerminate(r, k)
    \/ \E r \in Requests : ValidateContract(r)
    \/ \E r \in Requests : CommitStart(r)
    \/ \E r \in Requests : CommitSubmitWork(r)
    \/ \E r \in Requests : CommitComplete(r)
    \/ \E r \in Requests : CommitDispute(r)
    \/ \E r \in Requests : CommitTerminate(r)
    \/ Tick

SpecContractConc == InitContract /\ [][NextContractConc]_vars

----------------------------------------------------------------------------
(* Overlapping createMilestone calls.  The prisma.$transaction of           *)
(* createMilestone has no isolationLevel either: tx.milestone.count reads  *)
(* the committed rows and locks nothing, so another createMilestone may    *)
(* commit between the count and the create.                                *)

\* request r calls createMilestone: the validation, then the count
BeginCreateMilestone(r, contractId, amount, dueDate, userId) ==
    LET c == createMilestoneCheck(contractId, amount, dueDate, userId) IN
    /\ txs[r] = NoTx
    /\ IF c = "OK"
       THEN /\ txs' = [txs EXCEPT ![r] =
                   [Tx("createMilestone", userId, contractId, amount, "")
                       EXCEPT !.count = MilestoneCount(contractId)]]
            /\ UNCHANGED last
       ELSE /\ last' = Err("createMilestone", contractId, c)
            /\ UNCHANGED txs
    /\ UNCHANGED <<lifecycleVars, otpVars, ledgerVars, clock>>

\* the create of the call of request r, and its commit
CommitCreateMilestone(r, newId) ==
    /\ txs[r].op = "createMilestone"
    /\ ~milestones[newId].exists
    /\ milestones' = [milestones EXCEPT ![newId] =
           NewMilestone(txs[r].contractId, txs[r].amount, txs[r].count)]
    /\ last' = Ok("createMilestone", newId)
    /\ Finish(r)
    /\ UNCHANGED <<contracts, bypassAdmin, otpVars, ledgerVars, clock>>

NextMilestoneConc ==
    \/ \E r \in Requests, k \in AnyContractId, a \in MilestoneAmounts,
          d \in DueDates, u \in UserIds : BeginCreateMilestone(r, k, a, d, u)
    \/ \E r \in Requests, m \in MilestoneIds : CommitCreateMilestone(r, m)

SpecMilestoneConc == InitMilestoneFresh /\ [][NextMilestoneConc]_vars

----------------------------------------------------------------------------
(* The OTPs of one (email, type): none yet, or one sent a period ago.       *)
(* Every step is one awaited statement of one call; time may pass between  *)
(* any two steps.                                                          *)

InitOtp ==
    /\ contracts = InitContracts
    /\ milestones = [m \in AnyMilestoneId |-> NoMilestone]
    /\ bypassAdmin = FALSE
    /\ wallets = [u \in UserIds |-> NoWallet]
    /\ escrows = [k \in AnyContractId |-> NoEscrow]
    /\ escrowTransactions = <<>>
    /\ walletTransactions = <<>>
    /\ clock = 1
    /\ txs = [r \in Requests |-> NoTx]
    /\ \/ otps = <<>> /\ wrongGuesses = <<>>
       \/ \E c \in GeneratedOtps :
             otps = <<NewOtp(1, c, 0, 0)>> /\ wrongGuesses = <<0>>
    /\ last = NoCall

NextOtp ==
    \/ \E r \in Requests : BeginCreateOtp(r)
    \/ \E r \in Requests : FindRecentOtp(r)
    \/ \E r \in Requests : InvalidateOtps(r)
    \/ \E r \in Requests, c \in GeneratedOtps : CreateOtp(r, c)
    \/ \E r \in Requests, c \in OtpCodes : BeginVerifyOtp(r, c)
    \/ \E r \in Requests : FindPendingOtp(r)
    \/ \E r \in Requests : UpdateOtp(r)
    \/ \E r \in Requests : BeginCleanup(r)
    \/ \E r \in Requests : CleanupOtps(r)
    \/ Tick

SpecOtp == InitOtp /\ [][NextOtp]_vars

----------------------------------------------------------------------------
(* The transition tables as the specification states them *)

ContractTable(from) ==
    CASE from = "PENDING"        -> {"ACTIVE", "TERMINATED"}
      [] from = "ACTIVE"         -> {"REVIEW_PENDING", "TERMINATED"}
      [] from = "REVIEW_PENDING" -> {"COMPLETED", "DISPUTED", "TERMINATED"}
      [] from = "DISPUTED"       -> {"TERMINATED"}
      [] OTHER                   -> {}

MilestoneTable(from) ==
    CASE from = "PENDING"     -> {"IN_PROGRESS", "CANCELED"}
      [] from = "IN_PROGRESS" -> {"SUBMITTED", "CANCELED"}
      [] from = "SUBMITTED"   -> {"APPROVED", "REJECTED", "DISPUTED"}
      [] from = "APPROVED"    -> {"PAID", "DISPUTED"}
      [] from = "PAID"        -> {"COMPLETED"}
      [] from = "DISPUTED"    -> {"APPROVED", "REJECTED"}
      [] from = "REJECTED"    -> {"IN_PROGRESS", "CANCELED"}
      [] OTHER                -> {}

----------------------------------------------------------------------------
(* C1 *)

\* the call `Call` of operation op on an existing contract whose status does
\* not allow `to` throws INVALID_CONTRACT_STATUS_TRANSITION and writes nothing
C1Rejects(Call, op, contractId, to) ==
    (to \notin ContractTable(contracts[contractId].status) /\ Call)
        => /\ last' = Err(op, contractId, "INVALID_CONTRACT_STATUS_TRANSITION")
           /\ contracts' = contracts

\* C1: every ContractService operation whose target status is not in the
\* transition table entry of the contract's current status fails with the
\* invalid-transition error and leaves the contract as it was; a contract that
\* is COMPLETED or TERMINATED keeps that status in every step.
ThmC1 ==
    [][\A k \in AnyContractId :
          contracts[k].exists =>
              /\ C1Rejects(startContract(k), "startContract", k, "ACTIVE")
              /\ C1Rejects(submitWork(k), "submitWork", k, "REVIEW_PENDING")
              /\ C1Rejects(completeContract(k), "completeContract", k, "COMPLETED")
              /\ C1Rejects(disputeContract(k), "disputeContract", k, "DISPUTED")
              /\ C1Rejects(terminateContract(k), "terminateContract", k,
                           "TERMINATED")
              /\ contracts[k].status \in {"COMPLETED", "TERMINATED"}
                    => contracts'[k].status = contracts[k].status
              /\ contracts'[k].status # contracts[k].status
                    => contracts'[k].status \in ContractTable(contracts[k].status)]_vars

\* a COMPLETED contract has just refused to be terminated
WitC1 ==
    /\ contracts["K1"].status = "COMPLETED"
    /\ last = Err("terminateContract", "K1", "INVALID_CONTRACT_STATUS_TRANSITION")

----------------------------------------------------------------------------
(* C2 *)

\* the caller reaches the transition check: the milestone exists, its contract
\* is actionable and the caller is the party the operation is for
C2Reached(milestoneId, userId, role) ==
    /\ milestones[milestoneId].exists
    /\ LET c == contracts[milestones[milestoneId].contractId] IN
       /\ c.exists
       /\ c.status \in {"ACTIVE", "PENDING"}
       /\ userId = (IF role = "CLIENT" THEN c.clientId ELSE c.freelancerId)

C2Rejects(Call, op, milestoneId, userId, role, to) ==
    (/\ C2Reached(milestoneId, userId, role)
     /\ to \notin MilestoneTable(milestones[milestoneId].status)
     /\ Call)
        => /\ last' = [op |-> op, id |-> milestoneId,
                       res |-> "INVALID_MILESTONE_STATUS_TRANSITION",
                       from |-> milestones[milestoneId].status, to |-> to]
           /\ milestones' = milestones

\* C2: without the admin override, a status-changing MilestoneService operation
\* whose target is not in the milestone transition table entry of the current
\* status fails with the invalid-transition error naming both states and leaves
\* the milestone as it was; the status of a milestone changes only along the table.
\* The service refuses such a call with the TypeError of withMilestoneContext
\* instead: the status stays, the error is not the invalid-transition error.
CexC2 ==
    [][bypassAdmin = FALSE =>
        \A m \in MilestoneIds :
          /\ \A u \in UserIds :
              /\ C2Rejects(submitMilestone(m, u), "submitMilestone",
                           m, u, "FREELANCER", "SUBMITTED")
              /\ C2Rejects(markMilestoneAsApprovedByFreelancer(m, u),
                           "markMilestoneAsApprovedByFreelancer",
                           m, u, "FREELANCER", "APPROVED")
              /\ C2Rejects(rejectMilestone(m, u), "rejectMilestone",
                           m, u, "FREELANCER", "REJECTED")
              /\ C2Rejects(disputeMilestone(m, u), "disputeMilestone",
                           m, u, "CLIENT", "DISPUTED")
              /\ C2Rejects(approveWorkByClient(m, u), "approveWorkByClient",
                           m, u, "CLIENT", "COMPLETED")
          /\ (/\ milestones[m].exists
              /\ milestones'[m].exists
              /\ milestones'[m].status # milestones[m].status)
                => milestones'[m].status \in MilestoneTable(milestones[m].status)]_vars

----------------------------------------------------------------------------
(* C3 *)

\* C3: a balance-decreasing transaction (processPayoutDeduction, depositFunds
\* on availableBalance; movePendingToAvailable on pendingBalance) commits its
\* decrement only while the balance still covers its amount, so of two
\* overlapping calls that together exceed the balance at most one commits.
CexC3 ==
    [][\A r \in Requests :
          /\ (txs[r].op \in {"processPayoutDeduction", "depositFunds"}
              /\ (CommitPayout(r) \/ CommitDeposit(r)))
                => wallets[txs[r].userId].availableBalance >= txs[r].amount
          /\ (txs[r].op = "movePendingToAvailable" /\ CommitMove(r))
                => wallets[txs[r].userId].pendingBalance >= txs[r].amount]_vars

----------------------------------------------------------------------------
(* C4 *)

\* C4: a releaseFunds or refundFunds transaction decrements heldAmount only
\* while heldAmount still covers its amount, so of two overlapping calls that
\* together exceed heldAmount at most one decrements it.
CexC4 ==
    [][\A r \in Requests :
          (/\ txs[r].op \in {"releaseFunds", "refundFunds"}
           /\ (CommitRelease(r) \/ CommitRefund(r))
           /\ escrows' # escrows)
             => escrows[txs[r].contractId].heldAmount >= txs[r].amount]_vars

----------------------------------------------------------------------------
(* C5 *)

RECURSIVE SumEscrowRows(_, _, _)
\* the sum of the amounts of the rows of `log` of the given account and type
SumEscrowRows(log, contractId, type) ==
    IF log = <<>> THEN 0
    ELSE (IF Head(log).escrowAccountId = contractId /\ Head(log).type = type
          THEN Head(log).amount ELSE 0)
         + SumEscrowRows(Tail(log), contractId, type)

\* C5: for every escrow account, heldAmount = initialAmount + the DEPOSIT rows
\* - the RELEASE rows - the REFUND rows of its transaction log.
ThmC5 ==
    \A k \in ContractIds :
        escrows[k].exists =>
            escrows[k].heldAmount =
                escrows[k].initialAmount
                + SumEscrowRows(escrowTransactions, k, "DEPOSIT")
                - SumEscrowRows(escrowTransactions, k, "RELEASE")
                - SumEscrowRows(escrowTransactions, k, "REFUND")

\* the account of K1 has received a deposit and paid a release
WitC5 ==
    /\ SumEscrowRows(escrowTransactions, "K1", "DEPOSIT") > 0
    /\ SumEscrowRows(escrowTransactions, "K1", "RELEASE") > 0

----------------------------------------------------------------------------
(* C6 *)

\* C6: heldAmount of every escrow account is >= 0 in every state reached by
\* depositFunds, releaseFunds and refundFunds calls, accepted or rejected.
CexC6 ==
    \A k \in ContractIds : escrows[k].heldAmount >= 0

----------------------------------------------------------------------------
(* C7 *)

\* C7: availableBalance and pendingBalance of every wallet are >= 0 in every
\* state reached by the wallet and escrow operations.
CexC7 ==
    \A u \in UserIds :
        /\ wallets[u].availableBalance >= 0
        /\ wallets[u].pendingBalance >= 0

----------------------------------------------------------------------------
(* C8 *)

\* all the money of the ledger: the balances of the wallets and the held amounts
Total ==
    wallets["c1"].availableBalance + wallets["c1"].pendingBalance
    + wallets["f1"].availableBalance + wallets["f1"].pendingBalance
    + wallets["f2"].availableBalance + wallets["f2"].pendingBalance
    + escrows["K1"].heldAmount + escrows["K2"].heldAmount

\* request r commits a payout in this step
PayoutCommits(r) ==
    txs[r].op = "processPayoutDeduction" /\ CommitPayout(r)

\* C8: every step of every interleaving leaves the total unchanged, except the
\* commit of a processPayoutDeduction, which lowers it by exactly its amount.
ThmC8 ==
    [][/\ \A r \in Requests : PayoutCommits(r) => Total' = Total - txs[r].amount
       /\ (~ \E r \in Requests : PayoutCommits(r)) => Total' = Total]_vars

\* a payout has just committed after money moved into escrow
WitC8 ==
    /\ last = Ok("processPayoutDeduction", "c1")
    /\ \E i \in 1 .. Len(escrowTransactions) : escrowTransactions[i].type = "DEPOSIT"

----------------------------------------------------------------------------
(* C9 *)

\* the client of contract k, which has an escrow account, deposits a positive amount
DepositByClient(u, k, a) ==
    /\ contracts[k].exists
    /\ escrows[k].exists
    /\ contracts[k].clientId = u
    /\ a > 0

\* C9: depositFunds by the contract's client with an amount above the client's
\* availableBalance, or with no client wallet, throws the insufficient-balance
\* error and leaves wallets, escrow accounts and both logs as they were.
ThmC9 ==
    [][\A u \in UserIds, k \in ContractIds, a \in Amounts :
          (/\ DepositByClient(u, k, a)
           /\ (~wallets[u].exists \/ a > wallets[u].availableBalance)
           /\ depositFunds(u, k, a))
             => /\ last' = Err("depositFunds", k, "INSUFFICIENT_AVAILABLE_BALANCE")
                /\ UNCHANGED ledgerVars]_vars

\* a client holding 1 has just been refused a deposit
WitC9 ==
    /\ last = Err("depositFunds", "K1", "INSUFFICIENT_AVAILABLE_BALANCE")
    /\ wallets["c1"].exists
    /\ wallets["c1"].availableBalance = 1

----------------------------------------------------------------------------
(* C10 *)

\* `after` is `before` with one more row, of the given type and amount
OneRowAdded(before, after, type, amount) ==
    /\ Len(after) = Len(before) + 1
    /\ SubSeq(after, 1, Len(before)) = before
    /\ after[Len(after)].type = type
    /\ after[Len(after)].amount = amount

\* C10: depositFunds by the contract's client with 0 < amount <= availableBalance
\* succeeds, lowers the client's availableBalance by amount, raises the
\* contract's heldAmount by amount, appends one EscrowTransaction(DEPOSIT) of that
\* account and one WalletTransaction(HOLD) of that wallet with that amount, and
\* changes no other balance, wallet or escrow account.
ThmC10 ==
    [][\A u \in UserIds, k \in ContractIds, a \in Amounts :
          (/\ DepositByClient(u, k, a)
           /\ wallets[u].exists
           /\ a <= wallets[u].availableBalance
           /\ depositFunds(u, k, a))
             => /\ last' = Ok("depositFunds", k)
                /\ wallets' = [wallets EXCEPT ![u].availableBalance = @ - a]
                /\ escrows' = [escrows EXCEPT ![k].heldAmount = @ + a]
                /\ OneRowAdded(escrowTransactions, escrowTransactions', "DEPOSIT", a)
                /\ escrowTransactions'[Len(escrowTransactions')].escrowAccountId = k
                /\ OneRowAdded(walletTransactions, walletTransactions', "HOLD", a)
                /\ walletTransactions'[Len(walletTransactions')].walletId = u]_vars

\* the client has just moved its whole balance into the escrow of K1
WitC10 ==
    /\ last = Ok("depositFunds", "K1")
    /\ wallets["c1"].availableBalance = 0
    /\ escrows["K1"].heldAmount = MaxBalance
    /\ Len(escrowTransactions) = 1
    /\ Len(walletTransactions) = 1

----------------------------------------------------------------------------
(* C11 *)

\* C11: a releaseFunds that succeeds with 0 < amount <= heldAmount lowers the
\* contract's heldAmount by amount, raises the pendingBalance of the contract's
\* freelancer by amount and nothing else in any wallet (availableBalance and the
\* client's wallet stay), and appends one EscrowTransaction(RELEASE) of that
\* account with that amount.
ThmC11 ==
    [][\A u \in UserIds, k \in ContractIds, a \in Amounts :
          (/\ a > 0
           /\ a <= escrows[k].heldAmount
           /\ releaseFunds(u, k, a)
           /\ last' = Ok("releaseFunds", k))
             => /\ escrows' = [escrows EXCEPT ![k].heldAmount = @ - a]
                /\ wallets' = [wallets EXCEPT
                                  ![contracts[k].freelancerId].pendingBalance = @ + a]
                /\ wallets'[contracts[k].clientId] = wallets[contracts[k].clientId]
                /\ OneRowAdded(escrowTransactions, escrowTransactions', "RELEASE", a)
                /\ escrowTransactions'[Len(escrowTransactions')].escrowAccountId = k]_vars

\* the client has just released the whole escrow of K1 to the freelancer
WitC11 ==
    /\ last = Ok("releaseFunds", "K1")
    /\ escrows["K1"].heldAmount = 0
    /\ wallets["f1"].pendingBalance > 0
    /\ wallets["f1"].availableBalance = 0
    /\ \E i \in 1 .. Len(escrowTransactions) : escrowTransactions[i].type = "RELEASE"

----------------------------------------------------------------------------
(* C12 *)

\* the parties of the contract of milestone m
ClientOf(m) == contracts[milestones[m].contractId].clientId
FreelancerOf(m) == contracts[milestones[m].contractId].freelancerId

\* C12: a milestone row disappears only in an acceptRequestDeletion called by
\* the freelancer on a milestone whose deletionRequestedAt is set;
\* deletionRequestedAt becomes set only in a requestDeletion called by the
\* client; and acceptRequestDeletion called by the freelancer of an actionable
\* contract on a milestone whose deletionRequestedAt was never set fails with
\* NO_DELETION_REQUEST and leaves every milestone as it was.
\* The call fails in withMilestoneContext before it looks at deletionRequestedAt.
CexC12 ==
    [][\A m \in MilestoneIds :
          /\ (milestones[m].exists /\ ~milestones'[m].exists)
                => /\ milestones[m].deletionRequestedAt # 0
                   /\ last' = Ok("acceptRequestDeletion", m)
                   /\ acceptRequestDeletion(m, FreelancerOf(m))
          /\ (/\ milestones[m].exists
              /\ milestones[m].deletionRequestedAt = 0
              /\ milestones'[m].deletionRequestedAt # 0)
                => /\ last' = Ok("requestDeletion", m)
                   /\ requestDeletion(m, ClientOf(m))
          /\ (/\ milestones[m].exists
              /\ milestones[m].deletionRequestedAt = 0
              /\ contracts[milestones[m].contractId].exists
              /\ contracts[milestones[m].contractId].status \in {"ACTIVE", "PENDING"}
              /\ last'.id = m
              /\ acceptRequestDeletion(m, FreelancerOf(m)))
                => /\ UNCHANGED milestones
                   /\ last' = Err("acceptRequestDeletion", m,
                                  "NO_DELETION_REQUEST")]_vars

----------------------------------------------------------------------------
(* C13 *)

\* C13: no two existing milestones of one contract have the same sequence.
\* Two createMilestone calls that overlap count the same rows and write the
\* same sequence.
CexC13 ==
    \A m1 \in MilestoneIds, m2 \in MilestoneIds :
        (/\ m1 # m2
         /\ milestones[m1].exists
         /\ milestones[m2].exists
         /\ milestones[m1].contractId = milestones[m2].contractId)
           => milestones[m1].sequence # milestones[m2].sequence

----------------------------------------------------------------------------
(* C14 *)

\* the contract statuses in which milestones may be mutated
ActionableStatus == {"ACTIVE", "PENDING"}

\* user u calls one of the operations on an existing milestone m (every such
\* call records m as the id of the last call)
MilestoneOpCall(m, u) ==
    /\ last'.id = m
    /\ \/ submitMilestone(m, u)
       \/ markMilestoneAsApprovedByFreelancer(m, u)
       \/ rejectMilestone(m, u)
       \/ disputeMilestone(m, u)
       \/ approveWorkByClient(m, u)
       \/ requestDeletion(m, u)
       \/ acceptRequestDeletion(m, u)
       \/ \E a \in MilestoneAmounts : updateMilestone(m, u, a)

\* user u calls createMilestone on contract k
CreateCall(k, u) ==
    /\ last'.op = "createMilestone"
    /\ \E m \in MilestoneIds, a \in MilestoneAmounts, d \in DueDates :
          createMilestone(m, k, a, d, u)

\* C14: each of the nine milestone mutations, called while the parent
\* contract's status is not ACTIVE or PENDING, is rejected with
\* CONTRACT_INACTIVE and writes no milestone.
ThmC14 ==
    [][/\ \A m \in MilestoneIds, u \in UserIds :
             (/\ milestones[m].exists
              /\ contracts[milestones[m].contractId].status \notin ActionableStatus
              /\ MilestoneOpCall(m, u))
                => /\ last'.res = "CONTRACT_INACTIVE"
                   /\ UNCHANGED milestones
       /\ \A k \in ContractIds, u \in UserIds :
             (/\ contracts[k].status \notin ActionableStatus
              /\ CreateCall(k, u))
                => /\ last'.res = "CONTRACT_INACTIVE"
                   /\ UNCHANGED milestones]_vars

\* the freelancer has just been refused a submit on a contract under review
WitC14 ==
    /\ last = Err("submitMilestone", "M1", "CONTRACT_INACTIVE")
    /\ milestones["M1"].exists
    /\ contracts["K1"].status = "REVIEW_PENDING"

----------------------------------------------------------------------------
(* C15 *)

\* the authorization errors of the contract validators
AuthorizationErrors ==
    {"USER_NOT_AUTHORIZED", "CLIENT_ONLY_ACTION", "FREELANCER_ONLY_ACTION"}

\* user u calls one of the client's operations on milestone m
ClientOpCall(m, u) ==
    /\ last'.id = m
    /\ \/ disputeMilestone(m, u)
       \/ approveWorkByClient(m, u)
       \/ requestDeletion(m, u)
       \/ \E a \in MilestoneAmounts : updateMilestone(m, u, a)

\* user u calls one of the freelancer's operations on milestone m
FreelancerOpCall(m, u) ==
    /\ last'.id = m
    /\ \/ markMilestoneAsApprovedByFreelancer(m, u)
       \/ rejectMilestone(m, u)
       \/ submitMilestone(m, u)
       \/ acceptRequestDeletion(m, u)

\* the call was refused and wrote nothing; on a contract that accepts milestone
\* mutations the refusal is an authorization error
RefusedAsUnauthorized(contract) ==
    /\ UNCHANGED milestones
    /\ last'.res # "OK"
    /\ contract.status \in ActionableStatus => last'.res \in AuthorizationErrors

\* C15: createMilestone, updateMilestone, disputeMilestone, approveWorkByClient
\* and requestDeletion called by anyone but the contract's client, and
\* markMilestoneAsApprovedByFreelancer, rejectMilestone, submitMilestone and
\* acceptRequestDeletion called by anyone but the contract's freelancer, are
\* refused with an authorization error and write no milestone.
\* A party of the contract who calls the other party's operation on a milestone
\* is refused with the TypeError of withMilestoneContext, as the rightful party is.
CexC15 ==
    [][/\ \A m \in MilestoneIds, u \in UserIds :
             (/\ milestones[m].exists
              /\ u # ClientOf(m)
              /\ ClientOpCall(m, u))
                => RefusedAsUnauthorized(contracts[milestones[m].contractId])
       /\ \A m \in MilestoneIds, u \in UserIds :
             (/\ milestones[m].exists
              /\ u # FreelancerOf(m)
              /\ FreelancerOpCall(m, u))
                => RefusedAsUnauthorized(contracts[milestones[m].contractId])
       /\ \A k \in ContractIds, u \in UserIds :
             (/\ u # contracts[k].clientId
              /\ CreateCall(k, u))
                => RefusedAsUnauthorized(contracts[k])]_vars

----------------------------------------------------------------------------
(* C16 *)

\* C16: depositFunds and releaseFunds with a positive amount on a contract that
\* has an escrow account, called by a user who is not the contract's client,
\* throw the Unauthorized error and leave wallets, escrow accounts and both
\* logs as they were.
ThmC16 ==
    [][\A u \in UserIds, k \in ContractIds :
          (/\ getContractWithEscrow(k) = "OK"
           /\ u # contracts[k].clientId
           /\ last'.id = k)
             => \A a \in Amounts :
                  /\ (/\ a > 0
                      /\ last'.op = "depositFunds"
                      /\ depositFunds(u, k, a))
                        => /\ last' = Err("depositFunds", k, "UNAUTHORIZED")
                           /\ UNCHANGED ledgerVars
                  /\ (/\ a > 0
                      /\ last'.op = "releaseFunds"
                      /\ releaseFunds(u, k, a))
                        => /\ last' = Err("releaseFunds", k, "UNAUTHORIZED")
                           /\ UNCHANGED ledgerVars]_vars

\* the freelancer of K1, who has a wallet, has just been refused a release of
\* the funds held for K1
WitC16 ==
    /\ last = Err("releaseFunds", "K1", "UNAUTHORIZED")
    /\ wallets["f1"].exists
    /\ escrows["K1"].heldAmount > 0

----------------------------------------------------------------------------
(* C17 *)

\* C17: under overlapping ContractService calls every change of a contract's
\* stored status goes along the transition table.
CexC17 ==
    [][\A k \in ContractIds :
          (contracts[k].exists /\ contracts'[k].status # contracts[k].status)
             => contracts'[k].status \in ContractTable(contracts[k].status)]_vars

----------------------------------------------------------------------------
(* C18 *)

\* C18: no depositFunds, releaseFunds or refundFunds is accepted on a contract
\* that is COMPLETED or TERMINATED: the escrow account of such a contract does
\* not change.
CexC18 ==
    [][\A k \in ContractIds :
          contracts[k].status \in {"COMPLETED", "TERMINATED"}
             => escrows'[k] = escrows[k]]_vars

----------------------------------------------------------------------------
(* C19 *)

\* the calls of the three operations on the escrow of contract k
LedgerCalls(k) ==
    [op : {"depositFunds", "releaseFunds"}, userId : UserIds,
     contractId : {k}, amount : Amounts]
    \cup [op : {"refundFunds"}, userId : {""}, contractId : {k}, amount : Amounts]

\* the outcome and the ledger that call c leaves on ledger l
Apply(l, c) ==
    CASE c.op = "depositFunds" -> depositFundsIn(l, c.userId, c.contractId, c.amount)
      [] c.op = "releaseFunds" -> releaseFundsIn(l, c.userId, c.contractId, c.amount)
      [] c.op = "refundFunds"  -> refundFundsIn(l, c.contractId, c.amount)

\* the number of rows of log s equal to row
RowCount(s, row) == Cardinality({i \in 1 .. Len(s) : s[i] = row})

\* two logs hold the same rows, whatever the order they were written in
SameRows(s, t) ==
    \/ s = t
    \/ /\ Len(s) = Len(t)
       /\ \A i \in 1 .. Len(s) : RowCount(s, s[i]) = RowCount(t, s[i])

\* calls c and d give the same outcomes and the same ledger in either order
Commute(l, c, d) ==
    LET cFirst == Apply(l, c)
        dAfter == Apply(cFirst.ledger, d)
        dFirst == Apply(l, d)
        cAfter == Apply(dFirst.ledger, c) IN
    /\ cFirst.res = cAfter.res
    /\ dFirst.res = dAfter.res
    /\ dAfter.ledger.wallets = cAfter.ledger.wallets
    /\ dAfter.ledger.escrows = cAfter.ledger.escrows
    /\ SameRows(dAfter.ledger.escrowTransactions, cAfter.ledger.escrowTransactions)
    /\ SameRows(dAfter.ledger.walletTransactions, cAfter.ledger.walletTransactions)

\* the calls on contract k that change ledger l
Accepted(l, k) == {c \in LedgerCalls(k) : Apply(l, c).ledger # l}

\* C19 as stated: any two ledger operations on different contracts give the
\* same outcomes and the same final state in either order.
CexC19 ==
    \A c \in LedgerCalls("K1"), d \in LedgerCalls("K2") : Commute(Ledger, c, d)

\* both calls touch the availableBalance of one client, and one of them is a
\* depositFunds, whose outcome depends on that balance
ShareClientBalance(c, d) ==
    /\ contracts[c.contractId].clientId = contracts[d.contractId].clientId
    /\ \/ c.op = "depositFunds" /\ d.op \in {"depositFunds", "refundFunds"}
       \/ d.op = "depositFunds" /\ c.op \in {"depositFunds", "refundFunds"}

\* C19, amended: two ledger operations on different contracts give the same
\* outcomes and the same final state in either order, unless the contracts
\* have the same client and one operation is a depositFunds while the other is
\* a depositFunds or a refundFunds.  (Two calls that both leave the ledger as
\* it is are the same calls in either order; the pairs composed are those with
\* a call the ledger accepts.)
ThmC19 ==
    LET l == Ledger IN
    /\ \A c \in Accepted(l, "K1"), d \in LedgerCalls("K2") :
          ~ShareClientBalance(c, d) => Commute(l, c, d)
    /\ \A c \in LedgerCalls("K1"), d \in Accepted(l, "K2") :
          ~ShareClientBalance(c, d) => Commute(l, c, d)

\* after a deposit, a release on K1 and a refund on K2 would both be accepted
WitC19 ==
    /\ Len(escrowTransactions) >= 1
    /\ Apply(Ledger, [op |-> "releaseFunds", userId |-> "c1",
                      contractId |-> "K1", amount |-> 1]).res = "OK"
    /\ Apply(Ledger, [op |-> "refundFunds", userId |-> "",
                      contractId |-> "K2", amount |-> 1]).res = "OK"


----------------------------------------------------------------------------
(* C20 *)

\* the freelancer of contract k can be credited: a wallet of an ACTIVE user with
\* role FREELANCER
FreelancerCreditable(k) ==
    LET f == contracts[k].freelancerId IN
    /\ wallets[f].exists
    /\ users[f].role = "FREELANCER"
    /\ users[f].status = "ACTIVE"

\* C20: a releaseFunds by the client that passes the heldAmount check while the
\* contract's freelancer has no wallet, or is not an ACTIVE FREELANCER, fails,
\* and heldAmount, every wallet and both logs are as before the call.
ThmC20 ==
    [][\A u \in UserIds, k \in ContractIds, a \in Amounts :
          (/\ releaseFundsCheck(u, k, a) = "OK"
           /\ ~FreelancerCreditable(k)
           /\ releaseFunds(u, k, a))
             => /\ last'.op = "releaseFunds"
                /\ last'.res # "OK"
                /\ UNCHANGED ledgerVars]_vars

\* a release to the suspended freelancer of K2, who has a wallet, has just
\* failed with the funds still held
WitC20 ==
    /\ last = Err("releaseFunds", "K2", "FREELANCER_WALLET_NOT_FOUND_OR_INACTIVE")
    /\ wallets["f2"].exists
    /\ escrows["K2"].heldAmount > 0

----------------------------------------------------------------------------
(* C21 *)

\* the ledger effect of a refund of a to the client of contract k
RefundApplied(k, a) ==
    /\ last' = Ok("refundFunds", k)
    /\ escrows' = [escrows EXCEPT ![k].heldAmount = @ - a]
    /\ wallets' = [wallets EXCEPT
                      ![contracts[k].clientId].availableBalance = @ + a]
    /\ OneRowAdded(escrowTransactions, escrowTransactions', "REFUND", a)
    /\ escrowTransactions'[Len(escrowTransactions')].escrowAccountId = k
    /\ OneRowAdded(walletTransactions, walletTransactions', "ADJUSTMENT", a)
    /\ walletTransactions'[Len(walletTransactions')].walletId
          = contracts[k].clientId

\* C21 as stated: refundFunds with a positive amount on a contract that has an
\* escrow account: when amount <= heldAmount it lowers heldAmount by amount,
\* raises the client's availableBalance by amount and appends one
\* EscrowTransaction(REFUND) and one WalletTransaction(ADJUSTMENT); when
\* amount > heldAmount it fails for insufficient held funds and the ledger is
\* unchanged.
CexC21 ==
    [][\A k \in ContractIds, a \in Amounts :
          (/\ a > 0
           /\ getContractWithEscrow(k) = "OK"
           /\ last'.op = "refundFunds"
           /\ last'.id = k
           /\ refundFunds(k, a))
             => IF a <= escrows[k].heldAmount
                THEN RefundApplied(k, a)
                ELSE /\ last' = Err("refundFunds", k, "INSUFFICIENT_HELD_AMOUNT")
                     /\ UNCHANGED ledgerVars]_vars

\* C21 (amended): refundFunds with a positive amount on a contract that has an
\* escrow account: when amount > heldAmount it fails for insufficient held
\* funds and the ledger is unchanged; when amount <= heldAmount and the
\* contract's client has a wallet it succeeds, lowers heldAmount by amount,
\* raises the client's availableBalance by amount and nothing else, and appends
\* one EscrowTransaction(REFUND) of that account and one
\* WalletTransaction(ADJUSTMENT) of the client's wallet with that amount; when
\* amount <= heldAmount and the client has no wallet it fails, the wallet
\* update finding no row, and the ledger is unchanged.
ThmC21 ==
    [][\A k \in ContractIds, a \in Amounts :
          (/\ a > 0
           /\ getContractWithEscrow(k) = "OK"
           /\ last'.op = "refundFunds"
           /\ last'.id = k
           /\ refundFunds(k, a))
             => IF a > escrows[k].heldAmount
                THEN /\ last' = Err("refundFunds", k, "INSUFFICIENT_HELD_AMOUNT")
                     /\ UNCHANGED ledgerVars
                ELSE IF wallets[contracts[k].clientId].exists
                THEN RefundApplied(k, a)
                ELSE /\ last' = Err("refundFunds", k, "RECORD_NOT_FOUND")
                     /\ UNCHANGED ledgerVars]_vars

\* the escrow of K1 has just been refunded in full to the client
WitC21 ==
    /\ last = Ok("refundFunds", "K1")
    /\ escrows["K1"].initialAmount > 0
    /\ escrows["K1"].heldAmount = 0
    /\ wallets["c1"].availableBalance > 0
    /\ \E i \in 1 .. Len(escrowTransactions) : escrowTransactions[i].type = "REFUND"
    /\ \E i \in 1 .. Len(walletTransactions) : walletTransactions[i].type = "ADJUSTMENT"

----------------------------------------------------------------------------
(* C22 *)

\* the timestamp each transition sets with the status ("" for none)
TimestampOf(op) ==
    CASE op = "startContract"     -> "startDate"
      [] op = "submitWork"        -> "submittedAt"
      [] op = "completeContract"  -> "endDate"
      [] op = "terminateContract" -> "endDate"
      [] op = "disputeContract"   -> ""

\* the call of operation op on contract k is this step
ContractOpCall(op, k) ==
    /\ last'.op = op
    /\ last'.id = k
    /\ CASE op = "startContract"     -> startContract(k)
         [] op = "submitWork"        -> submitWork(k)
         [] op = "completeContract"  -> completeContract(k)
         [] op = "terminateContract" -> terminateContract(k)
         [] op = "disputeContract"   -> disputeContract(k)

\* C22 as stated: a contract transition that succeeds writes only the status
\* and the transition's timestamp (startDate for start, submittedAt for
\* submitWork, endDate for complete and terminate, none for dispute) and leaves
\* every other field of the contract as it was; a transition that is rejected
\* changes no contract field.
CexC22 ==
    [][\A op \in ContractOps, k \in AnyContractId :
          ContractOpCall(op, k)
            => IF last'.res = "OK"
               THEN /\ contracts'[k].status = ContractTarget(op)
                    /\ \A f \in DOMAIN contracts[k] :
                          contracts'[k][f] =
                             IF f = "status" THEN ContractTarget(op)
                             ELSE IF f = TimestampOf(op) THEN clock
                             ELSE contracts[k][f]
               ELSE UNCHANGED contracts]_vars

\* C22 (amended): a contract transition that succeeds sets the status to its
\* target, the transition's timestamp (startDate for start, submittedAt for
\* submitWork, endDate for complete and terminate, none for dispute) to the
\* current time and updatedAt, the column every update of the row sets, to the
\* current time, and leaves every other field of the contract and every other
\* contract as it was; a transition that is rejected changes no contract field.
ThmC22 ==
    [][\A op \in ContractOps, k \in AnyContractId :
          ContractOpCall(op, k)
            => IF last'.res = "OK"
               THEN /\ contracts'[k].status = ContractTarget(op)
                    /\ \A f \in DOMAIN contracts[k] :
                          contracts'[k][f] =
                             IF f = "status" THEN ContractTarget(op)
                             ELSE IF f = TimestampOf(op) THEN clock
                             ELSE IF f = "updatedAt" THEN clock
                             ELSE contracts[k][f]
                    /\ \A j \in AnyContractId \ {k} : contracts'[j] = contracts[j]
               ELSE UNCHANGED contracts]_vars

\* K1 has been started, submitted and then disputed at a later time: the dispute
\* left its three timestamps and createdAt as they were and set updatedAt
WitC22 ==
    /\ last = Ok("disputeContract", "K1")
    /\ contracts["K1"].status = "DISPUTED"
    /\ contracts["K1"].startDate = 1
    /\ contracts["K1"].submittedAt = 1
    /\ contracts["K1"].endDate = 0
    /\ contracts["K1"].clientId = "c1"
    /\ contracts["K1"].createdAt = 1
    /\ contracts["K1"].updatedAt = clock
    /\ clock > 1

----------------------------------------------------------------------------
(* C23 *)

StatusOps ==
    {"markMilestoneAsApprovedByFreelancer", "rejectMilestone", "submitMilestone",
     "disputeMilestone", "approveWorkByClient"}

\* the status and the role of each status-changing operation
StatusOpTarget(op) ==
    CASE op = "markMilestoneAsApprovedByFreelancer" -> "APPROVED"
      [] op = "rejectMilestone"                     -> "REJECTED"
      [] op = "submitMilestone"                     -> "SUBMITTED"
      [] op = "disputeMilestone"                    -> "DISPUTED"
      [] op = "approveWorkByClient"                 -> "COMPLETED"

StatusOpRole(op) ==
    IF op \in {"disputeMilestone", "approveWorkByClient"} THEN "CLIENT"
    ELSE "FREELANCER"

\* the call of status-changing operation op on milestone m by user u is this step
StatusOpCall(op, m, u) ==
    /\ last'.op = op
    /\ last'.id = m
    /\ CASE op = "markMilestoneAsApprovedByFreelancer" ->
                markMilestoneAsApprovedByFreelancer(m, u)
         [] op = "rejectMilestone"     -> rejectMilestone(m, u)
         [] op = "submitMilestone"     -> submitMilestone(m, u)
         [] op = "disputeMilestone"    -> disputeMilestone(m, u)
         [] op = "approveWorkByClient" -> approveWorkByClient(m, u)

\* C23: with the administrative override on, a status-changing milestone
\* operation that passes the milestone-exists, contract-actionable and role
\* checks succeeds and sets its target status whatever the current status is,
\* CANCELED and COMPLETED included; one that fails any of those checks is
\* still rejected with that check's error and the milestones are unchanged.
\* The role check of withMilestoneContext throws a TypeError for either role, so
\* no call gets as far as the override.
CexC23 ==
    [][\A op \in StatusOps, m \in AnyMilestoneId, u \in UserIds :
          (bypassAdmin /\ StatusOpCall(op, m, u))
            => LET r == withMilestoneContext(m, u, StatusOpRole(op)) IN
               IF r = "OK"
               THEN /\ last' = Ok(op, m)
                    /\ milestones' = [milestones EXCEPT
                                         ![m].status = StatusOpTarget(op)]
               ELSE /\ last' = Err(op, m, r)
                    /\ r \in {"MILESTONE_NOT_FOUND", "CONTRACT_NOT_FOUND",
                              "CONTRACT_INACTIVE", "USER_NOT_AUTHORIZED",
                              "CLIENT_ONLY_ACTION", "FREELANCER_ONLY_ACTION"}
                    /\ UNCHANGED milestones]_vars

----------------------------------------------------------------------------
(* C24 *)

\* C24: movePendingToAvailable with a positive amount succeeds exactly when the
\* wallet exists and its pendingBalance is at least the amount; it then lowers
\* pendingBalance and raises availableBalance of that wallet by the amount, so
\* that their sum stays, and appends one WalletTransaction(ADJUSTMENT) of that
\* wallet with that amount; otherwise it fails for insufficient pending balance
\* and the ledger is unchanged.
ThmC24 ==
    [][\A u \in UserIds, a \in Amounts :
          (/\ a > 0
           /\ last'.op = "movePendingToAvailable"
           /\ last'.id = u
           /\ movePendingToAvailable(u, a))
             => IF wallets[u].exists /\ wallets[u].pendingBalance >= a
                THEN /\ last' = Ok("movePendingToAvailable", u)
                     /\ wallets' = [wallets EXCEPT
                                       ![u].pendingBalance = @ - a,
                                       ![u].availableBalance = @ + a]
                     /\ wallets'[u].pendingBalance + wallets'[u].availableBalance
                           = wallets[u].pendingBalance + wallets[u].availableBalance
                     /\ OneRowAdded(walletTransactions, walletTransactions',
                                    "ADJUSTMENT", a)
                     /\ walletTransactions'[Len(walletTransactions')].walletId = u
                     /\ UNCHANGED <<escrows, escrowTransactions>>
                ELSE /\ last' = Err("movePendingToAvailable", u,
                                    "INSUFFICIENT_PENDING_BALANCE")
                     /\ UNCHANGED ledgerVars]_vars

\* the freelancer f1 has just moved everything released to them into the
\* available balance
WitC24 ==
    /\ last = Ok("movePendingToAvailable", "f1")
    /\ wallets["f1"].pendingBalance = 0
    /\ wallets["f1"].availableBalance > 0
    /\ walletTransactions[Len(walletTransactions)] =
          [walletId |-> "f1", amount |-> wallets["f1"].availableBalance,
           type |-> "ADJUSTMENT", relatedId |-> ""]

----------------------------------------------------------------------------
(* C25 *)

\* C25: processPayoutDeduction with a positive amount succeeds exactly when the
\* wallet exists and its availableBalance is at least the amount; it then lowers
\* availableBalance of that wallet by the amount, leaves pendingBalance, and
\* appends one WalletTransaction(WITHDRAWAL) of that wallet with that amount and
\* relatedId = payoutId; otherwise it fails for insufficient available balance
\* and the ledger is unchanged.
ThmC25 ==
    [][\A u \in UserIds, a \in Amounts, w \in WithdrawalIds :
          (/\ a > 0
           /\ last'.op = "processPayoutDeduction"
           /\ last'.id = u
           /\ processPayoutDeduction(u, a, w))
             => IF wallets[u].exists /\ wallets[u].availableBalance >= a
                THEN /\ last' = Ok("processPayoutDeduction", u)
                     /\ wallets' = [wallets EXCEPT ![u].availableBalance = @ - a]
                     /\ wallets'[u].pendingBalance = wallets[u].pendingBalance
                     /\ OneRowAdded(walletTransactions, walletTransactions',
                                    "WITHDRAWAL", a)
                     /\ walletTransactions'[Len(walletTransactions')].walletId = u
                     /\ walletTransactions'[Len(walletTransactions')].relatedId = w
                     /\ UNCHANGED <<escrows, escrowTransactions>>
                ELSE /\ last' = Err("processPayoutDeduction", u,
                                    "INSUFFICIENT_AVAILABLE_BALANCE")
                     /\ UNCHANGED ledgerVars]_vars

\* the client has just paid out its whole available balance under payout w2
WitC25 ==
    /\ last = Ok("processPayoutDeduction", "c1")
    /\ wallets["c1"].availableBalance = 0
    /\ Len(walletTransactions) = 1
    /\ walletTransactions[1].type = "WITHDRAWAL"
    /\ walletTransactions[1].relatedId = "w2"
    /\ walletTransactions[1].amount = MaxBalance

----------------------------------------------------------------------------
(* C26 *)

\* the wallets whose availableBalance or pendingBalance this step changes
ChangedWallets ==
    {u \in UserIds :
        \/ wallets'[u].availableBalance # wallets[u].availableBalance
        \/ wallets'[u].pendingBalance # wallets[u].pendingBalance}

Abs(n) == IF n < 0 THEN 0 - n ELSE n

\* the size of the change of wallet u in this step
ChangeSize(u) ==
    IF wallets'[u].pendingBalance # wallets[u].pendingBalance
    THEN Abs(wallets'[u].pendingBalance - wallets[u].pendingBalance)
    ELSE Abs(wallets'[u].availableBalance - wallets[u].availableBalance)

\* the row type that goes with the change of wallet u in this step
ChangeType(u) ==
    IF wallets'[u].pendingBalance > wallets[u].pendingBalance THEN "RELEASE"
    ELSE IF wallets'[u].pendingBalance < wallets[u].pendingBalance THEN "ADJUSTMENT"
    ELSE IF wallets'[u].availableBalance > wallets[u].availableBalance
         THEN "ADJUSTMENT"
    ELSE IF \E k \in ContractIds : escrows'[k].heldAmount > escrows[k].heldAmount
         THEN "HOLD"
    ELSE "WITHDRAWAL"

\* C26: in every step, committed transactions of overlapping calls included, the
\* WalletTransaction log only grows at its end; a step that changes the
\* availableBalance or pendingBalance of a wallet changes one wallet only and
\* appends exactly one row, of that wallet, with the size of the change (> 0) as
\* its amount and the type of the operation (HOLD for a deposit, RELEASE for a
\* release credit, ADJUSTMENT for a refund or a pending-to-available move,
\* WITHDRAWAL for a payout); a step that changes no balance appends no row.
ThmC26 ==
    [][/\ Len(walletTransactions') >= Len(walletTransactions)
       /\ SubSeq(walletTransactions', 1, Len(walletTransactions)) = walletTransactions
       /\ IF ChangedWallets = {}
          THEN walletTransactions' = walletTransactions
          ELSE /\ Cardinality(ChangedWallets) = 1
               /\ Len(walletTransactions') = Len(walletTransactions) + 1
               /\ \A u \in ChangedWallets :
                     LET row == walletTransactions'[Len(walletTransactions')] IN
                     /\ row.walletId = u
                     /\ row.amount = ChangeSize(u)
                     /\ row.amount > 0
                     /\ row.type = ChangeType(u)]_vars

\* two overlapping calls have both committed: a release credited f1, whose
\* wallet then moved the credit to its available balance; the log has one row
\* for each of the two changes of that wallet
WitC26 ==
    /\ Len(walletTransactions) = 2
    /\ walletTransactions[1].walletId = "f1"
    /\ walletTransactions[1].type = "RELEASE"
    /\ walletTransactions[2].walletId = "f1"
    /\ walletTransactions[2].type = "ADJUSTMENT"
    /\ wallets["f1"].availableBalance = walletTransactions[2].amount
    /\ wallets["f1"].pendingBalance = 0

----------------------------------------------------------------------------
(* C27 *)

\* C27: every ledger operation called with amount 0 is reported to its caller as
\* a failure for a non-positive amount and leaves the ledger unchanged.
CexC27 ==
    [][/\ \A u \in UserIds, k \in AnyContractId :
             /\ (last'.op = "depositFunds" /\ depositFunds(u, k, 0))
                   => /\ last' = Err("depositFunds", k, "AMOUNT_NOT_POSITIVE")
                      /\ UNCHANGED ledgerVars
             /\ (last'.op = "releaseFunds" /\ releaseFunds(u, k, 0))
                   => /\ last' = Err("releaseFunds", k, "AMOUNT_NOT_POSITIVE")
                      /\ UNCHANGED ledgerVars
             /\ (last'.op = "refundFunds" /\ refundFunds(k, 0))
                   => /\ last' = Err("refundFunds", k, "AMOUNT_NOT_POSITIVE")
                      /\ UNCHANGED ledgerVars
       /\ \A u \in UserIds, w \in WithdrawalIds :
             /\ (last'.op = "movePendingToAvailable" /\ movePendingToAvailable(u, 0))
                   => /\ last' = Err("movePendingToAvailable", u,
                                     "AMOUNT_NOT_POSITIVE")
                      /\ UNCHANGED ledgerVars
             /\ (last'.op = "processPayoutDeduction"
                   /\ processPayoutDeduction(u, 0, w))
                   => /\ last' = Err("processPayoutDeduction", u,
                                     "AMOUNT_NOT_POSITIVE")
                      /\ UNCHANGED ledgerVars]_vars

----------------------------------------------------------------------------
(* C28 *)

\* the funds call c draws on are still enough on ledger l
FundsSuffice(l, c) ==
    IF c.op = "depositFunds"
    THEN l.wallets[c.userId].availableBalance >= c.amount
    ELSE l.escrows[c.contractId].heldAmount >= c.amount

\* the last two rows of log t are the same row, appended to log s
SameRowTwice(s, t) ==
    /\ Len(t) = Len(s) + 2
    /\ SubSeq(t, 1, Len(s)) = s
    /\ t[Len(t)] = t[Len(t) - 1]

\* from ledger a to ledger c every balance and held amount moved twice as far
\* as from a to b
TwiceTheChange(a, b, c) ==
    /\ \A u \in UserIds :
          /\ c.wallets[u].availableBalance - a.wallets[u].availableBalance
                = 2 * (b.wallets[u].availableBalance - a.wallets[u].availableBalance)
          /\ c.wallets[u].pendingBalance - a.wallets[u].pendingBalance
                = 2 * (b.wallets[u].pendingBalance - a.wallets[u].pendingBalance)
    /\ \A k \in ContractIds :
          c.escrows[k].heldAmount - a.escrows[k].heldAmount
             = 2 * (b.escrows[k].heldAmount - a.escrows[k].heldAmount)

\* C28: in every reachable ledger, a depositFunds, releaseFunds or refundFunds
\* that succeeds and is then called again with the same arguments, while the
\* funds it draws on are still enough, succeeds again: the money moves a second
\* time, every balance and held amount has changed by twice the amount, and
\* each log it writes to has the same row twice.
ThmC28 ==
    \A k \in ContractIds : \A c \in LedgerCalls(k) :
        LET first == Apply(Ledger, c)
            retry == Apply(first.ledger, c) IN
        (first.res = "OK" /\ FundsSuffice(first.ledger, c))
          => /\ retry.res = "OK"
             /\ TwiceTheChange(Ledger, first.ledger, retry.ledger)
             /\ first.ledger # Ledger
             /\ SameRowTwice(Ledger.escrowTransactions,
                             retry.ledger.escrowTransactions)
             /\ SameRowTwice(Ledger.walletTransactions,
                             retry.ledger.walletTransactions)

\* the client has deposited 1 into the escrow of K1 twice over: both logs hold
\* the same row twice and the balances moved by 2
WitC28 ==
    /\ last = Ok("depositFunds", "K1")
    /\ Len(escrowTransactions) = 2
    /\ escrowTransactions[1] = escrowTransactions[2]
    /\ escrowTransactions[1].type = "DEPOSIT"
    /\ Len(walletTransactions) = 2
    /\ walletTransactions[1] = walletTransactions[2]
    /\ escrows["K1"].heldAmount = escrows["K1"].initialAmount + 2
    /\ wallets["c1"].availableBalance = 0

----------------------------------------------------------------------------
(* C29 *)

\* C29: with the override off, in every state reachable from contracts without
\* milestones, every milestone has the status PENDING that createMilestone left
\* it with (so none is SUBMITTED, APPROVED, PAID or COMPLETED), and the last call,
\* if it was one of the five status-changing operations, was rejected.
ThmC29 ==
    /\ \A m \in MilestoneIds :
          milestones[m].exists => milestones[m].status = "PENDING"
    /\ last.op \in StatusOps => last.res # "OK"

\* the freelancer of K2 has just been refused the submission of M1, a milestone
\* that createMilestone made on K2 and that is still PENDING
WitC29 ==
    /\ milestones["M1"].exists
    /\ milestones["M1"].contractId = "K2"
    /\ milestones["M1"].status = "PENDING"
    /\ last = Err("submitMilestone", "M1", "TYPE_ERROR")

----------------------------------------------------------------------------
(* C30 *)

\* the call of request r is a verifyOtp that was made after maxAttempts calls
\* with a wrong code on the record it read had finished
MadeAfterLockout(r) ==
    /\ txs[r].op = "verifyOtp"
    /\ txs[r].pc = "update"
    /\ txs[r].otpRecord.id \in txs[r].seen

\* C30: once maxAttempts verifyOtp calls with a wrong code have been made on
\* a PENDING record, every later verifyOtp call for that record fails, even
\* with the right code and before expiry, and does not leave the record
\* VERIFIED.
CexC30 ==
    [][\A r \in Requests :
          (MadeAfterLockout(r) /\ UpdateOtp(r))
             => /\ last'.res # "OK"
                /\ otps'[txs[r].otpRecord.id].status # "VERIFIED"]_vars

====
